---- MODULE Spec2Model ----
(***************************************************************************)
(* The SMS channel of agent_pa: the inbound webhook's admission checks,    *)
(* the per-conversation serial queue, the session binding kept in the      *)
(* session store, and the calls made to the agent backend.                 *)
(*                                                                         *)
(* Strings are tuples of one-character strings, so that trimming,          *)
(* whitespace removal, lower-casing and prefix tests are computed as the   *)
(* code computes them.                                                     *)
(***************************************************************************)
EXTENDS Integers, Sequences, FiniteSets, TLC

(* ------------------------------ bounds -------------------------------- *)

\* webhook calls that reach the per-key queue in one behaviour of Spec
MaxTasks == 3
\* store or backend calls that throw in one behaviour
MaxFaults == 1
\* webhook calls that reach the per-key queue in one behaviour of SpecGate
MaxGateTasks == 1

(* ------------------------------ strings ------------------------------- *)

WS == {" ", "\n"}

RECURSIVE TrimLeft(_)
TrimLeft(s) == IF s # <<>> /\ Head(s) \in WS THEN TrimLeft(Tail(s)) ELSE s

RECURSIVE TrimRight(_)
TrimRight(s) ==
    IF s # <<>> /\ s[Len(s)] \in WS THEN TrimRight(SubSeq(s, 1, Len(s) - 1)) ELSE s

\* String(value || "").trim()
trimToString(value) == TrimRight(TrimLeft(value))

\* String.prototype.toLowerCase on the characters the model uses
LowerChar(c) ==
    CASE c = "A" -> "a"
      [] c = "B" -> "b"
      [] c = "X" -> "x"
      [] OTHER -> c

toLowerCase(s) == [i \in 1..Len(s) |-> LowerChar(s[i])]

\* .replace(/\s+/g, "")
RemoveWs(s) == SelectSeq(s, LAMBDA c : c \notin WS)

normalizeEndpoint(value) == toLowerCase(RemoveWs(trimToString(value)))

\* first(value): the form values of the model are single strings; an absent
\* field is the empty string
first(value) == value

startsWith(s, p) == Len(s) >= Len(p) /\ SubSeq(s, 1, Len(p)) = p

(* -------------------------- program constants ------------------------- *)

TWILIO == <<"t", "w", "i", "l", "i", "o">>
DEFAULT == <<"d", "e", "f", "a", "u", "l", "t">>
HELP_COMMAND == <<"/", "h", "e", "l", "p">>
SESSION_COMMAND == <<"/", "s", "e", "s", "s", "i", "o", "n">>
SESSION_NEW_COMMAND == SESSION_COMMAND \o <<"-", "n", "e", "w">>
UPDATE_COMMAND == <<"/", "u", "p", "d", "a", "t", "e">>
UPDATE_STATUS_COMMAND == UPDATE_COMMAND \o <<"-", "s", "t", "a", "t", "u", "s">>

(* ------------------------- shared chat commands ----------------------- *)

\* a boundary test that accepts any character after the command word
anyBoundary(value, command) == TRUE

hasCommandBoundary(value, command) ==
    Len(value) <= Len(command) \/ value[Len(command) + 1] \in WS

\* the name of the command, "" when the text is no command
parseSharedChatCommand(value) ==
    LET trimmed == trimToString(value) IN
    IF trimmed = <<>> THEN ""
    ELSE IF trimmed = HELP_COMMAND THEN "help"
    ELSE IF trimmed = SESSION_COMMAND THEN "session"
    ELSE IF startsWith(trimmed, SESSION_NEW_COMMAND)
            /\ hasCommandBoundary(trimmed, SESSION_NEW_COMMAND) THEN "session-new"
    ELSE IF startsWith(trimmed, UPDATE_COMMAND)
            /\ hasCommandBoundary(trimmed, UPDATE_COMMAND) THEN "update"
    ELSE IF trimmed = UPDATE_STATUS_COMMAND THEN "update-status"
    ELSE ""

(* --------------------------- provider adapter ------------------------- *)

join(parts) == parts[1] \o <<":">> \o parts[2] \o <<":">> \o parts[3] \o <<":">> \o parts[4]

\* a conversation key that leaves the sender out
conversationKeyOfDestination(provider, accountId, to, from) ==
    join(<<toLowerCase(provider),
           normalizeEndpoint(IF accountId = <<>> THEN DEFAULT ELSE accountId),
           normalizeEndpoint(to),
           <<>>>>)

createSmsConversationKey(provider, accountId, to, from) ==
    join(<<toLowerCase(provider),
           normalizeEndpoint(IF accountId = <<>> THEN DEFAULT ELSE accountId),
           normalizeEndpoint(to),
           normalizeEndpoint(from)>>)

\* the string that is signed: the URL, then every parameter as key and value,
\* the keys in sorted order (AccountSid < Body < From < To)
buildTwilioSignaturePayload(signatureUrl, form) ==
    <<signatureUrl, "AccountSid", form.AccountSid, "Body", form.Body,
      "From", form.From, "To", form.To>>

\* HMAC-SHA1 as a function of nothing but the key and the signed string
computeTwilioSignature(authToken, signatureUrl, form) ==
    <<authToken, buildTwilioSignaturePayload(signatureUrl, form)>>

resolveAuthToken(twilioConfig, accountSid) ==
    IF accountSid # <<>> /\ accountSid \in DOMAIN twilioConfig.authTokensByAccountSid
    THEN twilioConfig.authTokensByAccountSid[accountSid]
    ELSE twilioConfig.authToken

Reject(status) == [ok |-> FALSE, status |-> status]

parseInbound(form) ==
    LET from == trimToString(first(form.From))
        to == trimToString(first(form.To))
    IN  IF from = <<>> \/ to = <<>> THEN Reject(400)
        ELSE [ok |-> TRUE,
              event |-> [provider |-> TWILIO,
                         accountId |-> trimToString(first(form.AccountSid)),
                         from |-> from,
                         to |-> to,
                         text |-> trimToString(first(form.Body))]]

\* verification that only looks for the header and never compares it
verifyRequestPresenceOnly(twilioConfig, headers, form, signatureUrl) ==
    IF ~twilioConfig.validateSignature THEN [ok |-> TRUE]
    ELSE LET accountSid == trimToString(first(form.AccountSid))
             authToken == resolveAuthToken(twilioConfig, accountSid)
         IN  IF authToken = "" THEN Reject(500)
             ELSE IF headers.signature = <<>> THEN Reject(403)
             ELSE [ok |-> TRUE]

\* verification that looks for the header before it looks for the credential
verifyRequestHeaderFirst(twilioConfig, headers, form, signatureUrl) ==
    IF ~twilioConfig.validateSignature THEN [ok |-> TRUE]
    ELSE LET accountSid == trimToString(first(form.AccountSid))
             authToken == resolveAuthToken(twilioConfig, accountSid)
         IN  IF headers.signature = <<>> THEN Reject(403)
             ELSE IF authToken = "" THEN Reject(500)
             ELSE IF computeTwilioSignature(authToken, signatureUrl, form)
                        # headers.signature THEN Reject(403)
             ELSE [ok |-> TRUE]

verifyRequest(twilioConfig, headers, form, signatureUrl) ==
    IF ~twilioConfig.validateSignature THEN [ok |-> TRUE]
    ELSE LET accountSid == trimToString(first(form.AccountSid))
             authToken == resolveAuthToken(twilioConfig, accountSid)
         IN  IF authToken = "" THEN Reject(500)
             \* a signature is one token without whitespace; <<>> is a missing header
             ELSE IF headers.signature = <<>> THEN Reject(403)
             ELSE IF computeTwilioSignature(authToken, signatureUrl, form)
                        # headers.signature THEN Reject(403)
             ELSE [ok |-> TRUE]

\* new Set(numbers.map(normalizeEndpoint).filter(Boolean))
allowedSet(numbers) == {normalizeEndpoint(n) : n \in numbers} \ {<<>>}

isAllowedDestination(twilioConfig, to) ==
    allowedSet(twilioConfig.allowedToNumbers) = {}
    \/ normalizeEndpoint(to) \in allowedSet(twilioConfig.allowedToNumbers)

isAllowedSender(twilioConfig, from) ==
    allowedSet(twilioConfig.allowedFromNumbers) = {}
    \/ normalizeEndpoint(from) \in allowedSet(twilioConfig.allowedFromNumbers)

(* ------------------------------- state -------------------------------- *)

VARIABLES
    smsConfig,                    \* config.channels.sms, fixed at construction
    files,                        \* the session store: session id -> stored record
    nextSessionId,                \* the id the backend issues at the next createSession
    sentMessages,                 \* the sendUserMessage calls in the order the backend saw them
    conversationQueueTailByKey,   \* conversation key -> the task whose tail promise is registered
    tasks,                        \* the units of queued work, in arrival order
    lastCall,                     \* the latest webhook call and what it returned or queued
    faults                        \* store and backend calls that have thrown so far

vars == <<smsConfig, files, nextSessionId, sentMessages, conversationQueueTailByKey,
          tasks, lastCall, faults>>

Null == [null |-> TRUE]
NoCall == [request |-> Null, result |-> Null]

URL == "https://host/channels/sms/inbound"

(* ------------------------- admission (steps 1-6) ----------------------- *)

providerName(config) ==
    toLowerCase(trimToString(IF config.provider = <<>> THEN TWILIO ELSE config.provider))

unauthorizedResult ==
    [ok |-> TRUE, status |-> 200, sessionId |-> 0, conversationKey |-> <<>>,
     createdSession |-> FALSE, response |-> "unauthorizedReply"]

\* the checks with the signature verified before the two allow-lists
admissionSignatureFirst(config, request) ==
    IF ~config.enabled THEN Reject(404)
    ELSE IF providerName(config) # TWILIO THEN Reject(500)
    ELSE LET parsed == parseInbound(request.form) IN
    IF ~parsed.ok THEN parsed
    ELSE LET verification ==
                 verifyRequest(config.twilio, request.headers, request.form, URL) IN
    IF ~verification.ok THEN verification
    ELSE IF ~isAllowedDestination(config.twilio, parsed.event.to) THEN Reject(403)
    ELSE IF ~isAllowedSender(config.twilio, parsed.event.from) THEN unauthorizedResult
    ELSE Null

\* the checks with the sender's allow-list consulted before the destination's
admissionSenderFirst(config, request) ==
    IF ~config.enabled THEN Reject(404)
    ELSE IF providerName(config) # TWILIO THEN Reject(500)
    ELSE LET parsed == parseInbound(request.form) IN
    IF ~parsed.ok THEN parsed
    ELSE IF ~isAllowedSender(config.twilio, parsed.event.from) THEN unauthorizedResult
    ELSE IF ~isAllowedDestination(config.twilio, parsed.event.to) THEN Reject(403)
    ELSE LET verification ==
                 verifyRequest(config.twilio, request.headers, request.form, URL) IN
    IF ~verification.ok THEN verification
    ELSE Null

\* the part of handleInboundWebhook that runs before the queue: Null when the
\* call passes every check, the returned result otherwise
admission(config, request) ==
    IF ~config.enabled THEN Reject(404)
    ELSE IF providerName(config) # TWILIO THEN Reject(500)
    ELSE LET parsed == parseInbound(request.form) IN
    IF ~parsed.ok THEN parsed
    ELSE IF ~isAllowedDestination(config.twilio, parsed.event.to) THEN Reject(403)
    ELSE IF ~isAllowedSender(config.twilio, parsed.event.from) THEN unauthorizedResult
    ELSE LET verification ==
                 verifyRequest(config.twilio, request.headers, request.form, URL) IN
    IF ~verification.ok THEN verification
    ELSE Null

(* ---------------------------- session store --------------------------- *)

\* {...a, ...b}
spread(a, b) ==
    [f \in (DOMAIN a \cup DOMAIN b) |-> IF f \in DOMAIN b THEN b[f] ELSE a[f]]

\* what getSession returns: the stored record, Null when there is no file
readSessionFile(sessionId) ==
    IF sessionId \in DOMAIN files THEN files[sessionId] ELSE Null

\* upsertSession's merge and writeSessionFile's payload:
\* {...current, ...patch, id: sessionId}
mergedSession(current, patch, sessionId) ==
    spread(spread(IF current = Null THEN [id |-> sessionId] ELSE current, patch),
           [id |-> sessionId])

\* the spread written the other way round: the stored binding wins over the patch
smsBindingPatchStale(current, patch) ==
    LET currentBindings ==
            IF current # Null /\ "channelBindings" \in DOMAIN current
            THEN current.channelBindings ELSE <<>>
        currentSms ==
            IF "sms" \in DOMAIN currentBindings THEN currentBindings.sms ELSE <<>>
    IN  [channelBindings |-> spread(currentBindings, [sms |-> spread(patch, currentSms)])]

\* mergeSmsBinding's patch:
\* {channelBindings: {...currentBindings, sms: {...currentSms, ...patch}}}
smsBindingPatch(current, patch) ==
    LET currentBindings ==
            IF current # Null /\ "channelBindings" \in DOMAIN current
            THEN current.channelBindings ELSE <<>>
        currentSms ==
            IF "sms" \in DOMAIN currentBindings THEN currentBindings.sms ELSE <<>>
    IN  [channelBindings |-> spread(currentBindings, [sms |-> spread(currentSms, patch)])]

\* the lookup reading session.sms instead of session.channelBindings.sms
boundToTopLevel(session, conversationKey) ==
    /\ "sms" \in DOMAIN session
    /\ "conversationKey" \in DOMAIN session.sms
    /\ session.sms.conversationKey = conversationKey

\* session?.channelBindings?.sms?.conversationKey === conversationKey
boundTo(session, conversationKey) ==
    /\ "channelBindings" \in DOMAIN session
    /\ "sms" \in DOMAIN session.channelBindings
    /\ "conversationKey" \in DOMAIN session.channelBindings.sms
    /\ session.channelBindings.sms.conversationKey = conversationKey

(* ------------------------- the queued unit of work --------------------- *)

newTask(n, event, conversationKey, prior) ==
    [n |-> n, event |-> event, conversationKey |-> conversationKey, prior |-> prior,
     pc |-> "queued", after |-> "", target |-> 0, patch |-> Null, current |-> Null,
     session |-> [id |-> 0, created |-> FALSE], entries |-> <<>>, sessions |-> {},
     matches |-> {}, createCalls |-> 0, threw |-> FALSE, result |-> Null]

okResult(t, sessionId, createdSession, response) ==
    [ok |-> TRUE, status |-> 200, sessionId |-> sessionId,
     conversationKey |-> t.conversationKey, createdSession |-> createdSession,
     response |-> response]

\* the unit returns: its locals are gone, the result is what the caller receives
returned(t, result) ==
    [t EXCEPT !.pc = "settled", !.result = result, !.after = "", !.target = 0,
              !.patch = Null, !.current = Null, !.entries = <<>>, !.sessions = {},
              !.matches = {}, !.session = [id |-> 0, created |-> FALSE]]

\* the unit without its catch block: the error reaches the caller
rethrown(t) ==
    returned([t EXCEPT !.threw = TRUE], [ok |-> FALSE, status |-> 500])

\* the catch block of the unit
caught(t) ==
    returned([t EXCEPT !.threw = TRUE], okResult(t, 0, FALSE, "fallbackReply"))

\* the calls the unit awaits; each gives the task as it waits for that call
listSessions(t, after) ==
    [t EXCEPT !.pc = "readdir", !.after = after, !.entries = <<>>, !.sessions = {}]

createSession(t, after) ==
    [t EXCEPT !.pc = "createSession", !.after = after, !.createCalls = @ + 1]

sendUserMessage(t) == [t EXCEPT !.pc = "sendUserMessage", !.after = ""]

upsertSession(t, sessionId, patch, after) ==
    [t EXCEPT !.pc = "upsertSession", !.target = sessionId, !.patch = patch,
              !.after = after, !.current = Null]

mergeSmsBinding(t, sessionId, patch, after) ==
    [t EXCEPT !.pc = "mergeSmsBinding", !.target = sessionId, !.patch = patch,
              !.after = after, !.current = Null]

bindingPatch(t) ==
    [conversationKey |-> t.conversationKey, lastInboundMessageId |-> t.n]

\* the unit without the commands: every text goes to the backend
runEveryText(t) == {listSessions(t, "ensureSession")}

\* the unit from its start to its first await
run(t) ==
    LET command == parseSharedChatCommand(t.event.text) IN
    IF command = "help" THEN {returned(t, okResult(t, 0, FALSE, "help"))}
    ELSE IF command = "session" THEN {listSessions(t, "session")}
    ELSE IF command = "session-new" THEN {createSession(t, "session-new")}
    ELSE {listSessions(t, "ensureSession")}

\* /session-new without the unbinding of the other sessions
unbindSkipped(t) ==
    {mergeSmsBinding([t EXCEPT !.matches = {}], t.session.id, bindingPatch(t), "bind-new")}

\* unbindConversationKeyFromOtherSessions' loop, then the binding of the new session
unbindNext(t) ==
    IF t.matches = {}
    THEN {mergeSmsBinding(t, t.session.id, bindingPatch(t), "bind-new")}
    ELSE {mergeSmsBinding([t EXCEPT !.matches = @ \ {m}], m,
                          [conversationKey |-> <<>>], "unbind") : m \in t.matches}

\* what follows listSessions at each of its three call sites; the listing is
\* not used after this point
afterListSessions(listed) ==
    LET found == {s \in listed.sessions : boundTo(s, listed.conversationKey)}
        t == [listed EXCEPT !.sessions = {}, !.after = ""]
    IN
    CASE listed.after = "ensureSession" ->
           IF found # {}
           THEN {sendUserMessage([t EXCEPT !.session = [id |-> s.id, created |-> FALSE]])
                 : s \in found}
           ELSE {createSession(t, "ensureSession")}
      [] listed.after = "session" ->
           IF found # {}
           THEN {returned(t, okResult(t, s.id, FALSE, "session")) : s \in found}
           ELSE {returned(t, okResult(t, 0, FALSE, "session"))}
      [] listed.after = "unbind" ->
           unbindNext([t EXCEPT !.matches =
               {s.id : s \in {x \in found : x.id # t.session.id}}])

\* what follows a completed upsertSession at each of its call sites
afterUpsertSession(written) ==
    LET t == [written EXCEPT !.target = 0, !.patch = Null, !.current = Null, !.after = ""]
    IN
    CASE written.after = "ensureSession" -> {sendUserMessage(t)}
      [] written.after = "session-new" -> {listSessions(t, "unbind")}
      [] written.after = "sendUserMessage" ->
           {mergeSmsBinding(t, t.session.id, bindingPatch(t), "bind")}
      [] written.after = "unbind" -> unbindNext(t)
      [] written.after = "bind" ->
           {returned(t, okResult(t, t.session.id, t.session.created, "assistantText"))}
      [] written.after = "bind-new" ->
           {returned(t, okResult(t, t.session.id, TRUE, "started"))}

(* ------------------------------- actions ------------------------------ *)

\* whether the awaited call returns (TRUE) or throws (FALSE)
outcomes == IF faults < MaxFaults THEN {TRUE, FALSE} ELSE {TRUE}

\* the continuation whose finally callback deletes the entry without looking
\* whose tail it holds
resumeDeletesAnyTail(i, next) ==
    \E t \in next :
        /\ tasks' = [tasks EXCEPT ![i] = t]
        /\ conversationQueueTailByKey' =
               IF t.pc = "settled"
               THEN [k \in DOMAIN conversationQueueTailByKey \ {t.conversationKey}
                        |-> conversationQueueTailByKey[k]]
               ELSE conversationQueueTailByKey
        /\ sentMessages' =
               IF t.pc = "sendUserMessage"
               THEN Append(sentMessages, [task |-> i, sessionId |-> t.session.id])
               ELSE sentMessages

\* the continuation without the finally callback: the queue entry stays
resumeKeepsEntry(i, next) ==
    \E t \in next :
        /\ tasks' = [tasks EXCEPT ![i] = t]
        /\ UNCHANGED conversationQueueTailByKey
        /\ sentMessages' =
               IF t.pc = "sendUserMessage"
               THEN Append(sentMessages, [task |-> i, sessionId |-> t.session.id])
               ELSE sentMessages

\* task i continues as one of `next`; a unit that has returned settles its
\* promise, and the finally callback of enqueueConversationWork removes the
\* queue entry when it still holds this task's tail
resume(i, next) ==
    \E t \in next :
        /\ tasks' = [tasks EXCEPT ![i] = t]
        /\ conversationQueueTailByKey' =
               IF /\ t.pc = "settled"
                  /\ t.conversationKey \in DOMAIN conversationQueueTailByKey
                  /\ conversationQueueTailByKey[t.conversationKey] = i
               THEN [k \in DOMAIN conversationQueueTailByKey \ {t.conversationKey}
                        |-> conversationQueueTailByKey[k]]
               ELSE conversationQueueTailByKey
        /\ sentMessages' =
               IF t.pc = "sendUserMessage"
               THEN Append(sentMessages, [task |-> i, sessionId |-> t.session.id])
               ELSE sentMessages

throws(i) == resume(i, {caught(tasks[i])}) /\ faults' = faults + 1

\* the unit chained on a fresh resolved promise instead of the registered tail
enqueueUnchained(conversationKey, event) ==
    LET n == Len(tasks) + 1
    IN  /\ tasks' = Append(tasks, newTask(n, event, conversationKey, 0))
        /\ conversationQueueTailByKey' =
               [k \in DOMAIN conversationQueueTailByKey \cup {conversationKey} |->
                   IF k = conversationKey THEN n ELSE conversationQueueTailByKey[k]]

\* one queue for every key: the unit is chained behind the unit enqueued last
enqueueBehindLast(conversationKey, event) ==
    LET n == Len(tasks) + 1
    IN  /\ tasks' = Append(tasks, newTask(n, event, conversationKey, Len(tasks)))
        /\ conversationQueueTailByKey' =
               [k \in DOMAIN conversationQueueTailByKey \cup {conversationKey} |->
                   IF k = conversationKey THEN n ELSE conversationQueueTailByKey[k]]

\* enqueueConversationWork: chain behind the registered tail, register the new one
enqueueConversationWork(conversationKey, event) ==
    LET prior == IF conversationKey \in DOMAIN conversationQueueTailByKey
                 THEN conversationQueueTailByKey[conversationKey] ELSE 0
        n == Len(tasks) + 1
    IN  /\ tasks' = Append(tasks, newTask(n, event, conversationKey, prior))
        /\ conversationQueueTailByKey' =
               [k \in DOMAIN conversationQueueTailByKey \cup {conversationKey} |->
                   IF k = conversationKey THEN n ELSE conversationQueueTailByKey[k]]

\* the call with its work queued as soon as the payload has parsed, before
\* the allow-lists and the signature are checked
handleInboundWebhookEager(request, limit) ==
    LET rejected == admission(smsConfig, request)
        parsed == parseInbound(request.form)
    IN  IF ~parsed.ok
        THEN /\ lastCall' = [request |-> request, result |-> rejected]
             /\ UNCHANGED <<smsConfig, files, nextSessionId, sentMessages,
                            conversationQueueTailByKey, tasks, faults>>
        ELSE /\ Len(tasks) < limit
             /\ enqueueConversationWork(
                    createSmsConversationKey(TWILIO, parsed.event.accountId,
                                             parsed.event.to, parsed.event.from),
                    parsed.event)
             /\ lastCall' = [request |-> request,
                             result |-> IF rejected # Null THEN rejected
                                        ELSE [queued |-> Len(tasks) + 1]]
             /\ UNCHANGED <<smsConfig, files, nextSessionId, sentMessages, faults>>

\* one webhook call, up to the point where it returns or its work is queued
handleInboundWebhook(request, limit) ==
    LET rejected == admission(smsConfig, request) IN
    IF rejected # Null
    THEN /\ lastCall' = [request |-> request, result |-> rejected]
         /\ UNCHANGED <<smsConfig, files, nextSessionId, sentMessages,
                        conversationQueueTailByKey, tasks, faults>>
    ELSE LET event == parseInbound(request.form).event IN
         /\ Len(tasks) < limit
         /\ enqueueConversationWork(
                createSmsConversationKey(TWILIO, event.accountId, event.to, event.from),
                event)
         /\ lastCall' = [request |-> request, result |-> [queued |-> Len(tasks) + 1]]
         /\ UNCHANGED <<smsConfig, files, nextSessionId, sentMessages, faults>>

\* the unit chained on the start of the prior unit instead of its end
priorStarted(i) ==
    IF tasks[i].prior = 0 THEN TRUE ELSE tasks[tasks[i].prior].pc # "queued"

\* the unit chained without the catch: it starts only behind a unit that did
\* not fail
priorFulfilled(i) ==
    IF tasks[i].prior = 0 THEN TRUE
    ELSE tasks[tasks[i].prior].pc = "settled" /\ ~tasks[tasks[i].prior].threw

\* prior.catch(() => {}).then(run): the unit starts once the prior tail has settled
priorSettled(i) ==
    IF tasks[i].prior = 0 THEN TRUE ELSE tasks[tasks[i].prior].pc = "settled"

StartRun(i) ==
    /\ tasks[i].pc = "queued"
    /\ priorSettled(i)
    /\ resume(i, run(tasks[i]))
    /\ UNCHANGED <<smsConfig, files, nextSessionId, lastCall, faults>>

\* the names fs.readdir returns, in the order of the session ids
RECURSIVE ascending(_)
ascending(ids) ==
    IF ids = {} THEN <<>>
    ELSE LET least == CHOOSE x \in ids : \A y \in ids : x <= y
         IN  <<least>> \o ascending(ids \ {least})

\* what the callers of listSessions read of a parsed record
listed(session) ==
    [f \in DOMAIN session \cap {"id", "channelBindings"} |-> session[f]]

\* listSessions: fs.readdir
Readdir(i) ==
    /\ tasks[i].pc = "readdir"
    /\ \E ok \in outcomes :
        IF ok
        THEN /\ LET t == [tasks[i] EXCEPT !.entries = ascending(DOMAIN files),
                                          !.pc = "readFile"]
                IN  resume(i, IF t.entries = <<>> THEN afterListSessions(t) ELSE {t})
             /\ UNCHANGED faults
        ELSE throws(i)
    /\ UNCHANGED <<smsConfig, files, nextSessionId, lastCall>>

\* listSessions: fs.readFile and JSON.parse of the next directory entry
ReadFile(i) ==
    /\ tasks[i].pc = "readFile"
    /\ \E ok \in outcomes :
        IF ok
        THEN /\ LET entry == Head(tasks[i].entries)
                    t == [tasks[i] EXCEPT
                            !.entries = Tail(@),
                            !.sessions = IF entry \in DOMAIN files
                                         THEN @ \cup {listed(files[entry])} ELSE @]
                IN  resume(i, IF t.entries = <<>> THEN afterListSessions(t) ELSE {t})
             /\ UNCHANGED faults
        ELSE throws(i)
    /\ UNCHANGED <<smsConfig, files, nextSessionId, lastCall>>

\* agentService.createSession: the backend issues an id, then the record is upserted
BackendCreateSession(i) ==
    /\ tasks[i].pc = "createSession"
    /\ \E ok \in outcomes :
        IF ok
        THEN /\ LET t == [tasks[i] EXCEPT
                            !.session = [id |-> nextSessionId, created |-> TRUE]]
                IN  resume(i, {upsertSession(t, nextSessionId,
                                             [title |-> "SMS"], t.after)})
             /\ nextSessionId' = nextSessionId + 1
             /\ UNCHANGED faults
        ELSE throws(i) /\ UNCHANGED nextSessionId
    /\ UNCHANGED <<smsConfig, files, lastCall>>

\* mergeSmsBinding: its own getSession, from which the patch is built
MergeGetSession(i) ==
    /\ tasks[i].pc = "mergeSmsBinding"
    /\ \E ok \in outcomes :
        IF ok
        THEN /\ LET t == tasks[i]
                IN  resume(i, {upsertSession(t, t.target,
                        smsBindingPatch(readSessionFile(t.target), t.patch), t.after)})
             /\ UNCHANGED faults
        ELSE throws(i)
    /\ UNCHANGED <<smsConfig, files, nextSessionId, lastCall>>

\* upsertSession: getSession of the current record
UpsertGetSession(i) ==
    /\ tasks[i].pc = "upsertSession"
    /\ \E ok \in outcomes :
        IF ok
        THEN /\ resume(i, {[tasks[i] EXCEPT !.pc = "writeSessionFile",
                                            !.current = readSessionFile(tasks[i].target)]})
             /\ UNCHANGED faults
        ELSE throws(i)
    /\ UNCHANGED <<smsConfig, files, nextSessionId, lastCall>>

\* upsertSession: writeSessionFile, visible at the rename
WriteSessionFile(i) ==
    /\ tasks[i].pc = "writeSessionFile"
    /\ \E ok \in outcomes :
        IF ok
        THEN /\ LET t == tasks[i] IN
                /\ files' = [id \in DOMAIN files \cup {t.target} |->
                                IF id = t.target
                                THEN mergedSession(t.current, t.patch, t.target)
                                ELSE files[id]]
                /\ resume(i, afterUpsertSession(t))
             /\ UNCHANGED faults
        ELSE throws(i) /\ UNCHANGED files
    /\ UNCHANGED <<smsConfig, nextSessionId, lastCall>>

\* agentService.sendUserMessage: the backend answers, then the record is upserted
BackendSendMessage(i) ==
    /\ tasks[i].pc = "sendUserMessage"
    /\ \E ok \in outcomes :
        IF ok
        THEN /\ resume(i, {upsertSession(tasks[i], tasks[i].session.id,
                                         [lastUserMessage |-> i], "sendUserMessage")})
             /\ UNCHANGED faults
        ELSE throws(i)
    /\ UNCHANGED <<smsConfig, files, nextSessionId, lastCall>>

Step(i) ==
    \/ StartRun(i)
    \/ Readdir(i)
    \/ ReadFile(i)
    \/ BackendCreateSession(i)
    \/ MergeGetSession(i)
    \/ UpsertGetSession(i)
    \/ WriteSessionFile(i)
    \/ BackendSendMessage(i)

(* ------------------- state of the other components ------------------- *)

VARIABLES
    dir,      \* the sessions directory: file name -> inode
    data,     \* inode -> the text the file holds
    now,      \* Date.now()
    ops,      \* the calls made on the session store, in the order they began
    reply,    \* the reply formatter: its input and what it returned
    call,     \* a call of the provider adapter or of a parser, and what it returned
    updateService,  \* the update command service, its status file and its scripts
    agentRequests   \* the sendUserMessage requests of the agent service

storeVars == <<dir, data, now, ops>>

\* no store call is made in the behaviours of the channel
StoreIdle == dir = <<>> /\ data = <<>> /\ now = 0 /\ ops = <<>>

\* no reply is formatted
ReplyIdle == reply = Null

\* no call of the adapter or of a parser is made on its own
CallIdle == call = Null

\* no update service is constructed
UpdateIdle == updateService = Null

\* no message is sent through the agent service on its own
AgentIdle == agentRequests = <<>>

allVars == <<vars, storeVars, reply, call, updateService, agentRequests>>

(* ---------------------------- specifications -------------------------- *)

form(from, to, accountSid, body) ==
    [From |-> from, To |-> to, AccountSid |-> accountSid, Body |-> body]

HI == <<"h", "i">>

webhookCall(from, body) ==
    [form |-> form(from, <<"x">>, <<>>, body), headers |-> [signature |-> <<>>]]

\* Spec: an open channel and well-formed traffic from two senders; the first
\* also writes its number in a second spelling
Requests ==
    {webhookCall(<<"a">>, body) :
        body \in {HI, HELP_COMMAND, SESSION_COMMAND, SESSION_NEW_COMMAND}}
    \cup {webhookCall(<<"A", " ">>, HI)}
    \cup {webhookCall(<<"b">>, HI)}

openConfig ==
    [enabled |-> TRUE, provider |-> TWILIO,
     twilio |-> [validateSignature |-> FALSE, authToken |-> "",
                 authTokensByAccountSid |-> <<>>,
                 allowedToNumbers |-> {}, allowedFromNumbers |-> {}]]

Init ==
    /\ smsConfig = openConfig
    /\ files = <<>>
    /\ nextSessionId = 1
    /\ sentMessages = <<>>
    /\ conversationQueueTailByKey = <<>>
    /\ tasks = <<>>
    /\ lastCall = NoCall
    /\ faults = 0
    /\ StoreIdle
    /\ ReplyIdle
    /\ CallIdle
    /\ UpdateIdle
    /\ AgentIdle

Next ==
    \/ /\ \E request \in Requests : handleInboundWebhook(request, MaxTasks)
       /\ UNCHANGED <<storeVars, reply, call, updateService, agentRequests>>
    \/ /\ \E i \in DOMAIN tasks : Step(i)
       /\ UNCHANGED <<storeVars, reply, call, updateService, agentRequests>>

Spec == Init /\ [][Next]_allVars

\* SpecLive: the channel with every awaited call returning or throwing in
\* the end and the event loop running a continuation while one is ready; no
\* order among the units that are ready is assumed
Fairness ==
    WF_allVars(\E i \in DOMAIN tasks : Step(i) /\ UNCHANGED <<storeVars, reply, call, updateService, agentRequests>>)

SpecLive == Init /\ [][Next]_allVars /\ Fairness

\* SpecGate: every configuration of the admission checks, and traffic that
\* fails each of them: missing numbers, other destinations and senders,
\* missing, forged and genuine signatures
GateConfigs ==
    {[enabled |-> enabled, provider |-> provider,
      twilio |-> [validateSignature |-> validateSignature, authToken |-> authToken,
                  authTokensByAccountSid |-> <<>>,
                  allowedToNumbers |-> allowedTo, allowedFromNumbers |-> allowedFrom]] :
        enabled \in BOOLEAN,
        provider \in {TWILIO, <<"v", "o", "n", "a", "g", "e">>},
        validateSignature \in BOOLEAN,
        authToken \in {"", "tokA"},
        allowedTo \in {{}, {<<"X">>}},
        allowedFrom \in {{}, {<<"a">>}}}

GateForms ==
    {form(from, to, <<>>, HI) :
        from \in {<<>>, <<"a">>, <<"A", " ">>, <<"b">>},
        to \in {<<>>, <<"x">>, <<"y">>}}
    \cup {form(<<"a">>, <<"x">>, <<>>, SESSION_NEW_COMMAND)}

GateRequests ==
    {[form |-> f, headers |-> [signature |-> signature]] :
        f \in GateForms, signature \in {<<>>}}
    \cup {[form |-> f, headers |-> [signature |-> computeTwilioSignature(token, URL, f)]] :
        f \in GateForms, token \in {"tokA", "tokX"}}

InitGate ==
    /\ smsConfig \in GateConfigs
    /\ files = <<>>
    /\ nextSessionId = 1
    /\ sentMessages = <<>>
    /\ conversationQueueTailByKey = <<>>
    /\ tasks = <<>>
    /\ lastCall = NoCall
    /\ faults = MaxFaults
    /\ StoreIdle
    /\ ReplyIdle
    /\ CallIdle
    /\ UpdateIdle
    /\ AgentIdle

NextGate ==
    \/ /\ \E request \in GateRequests : handleInboundWebhook(request, MaxGateTasks)
       /\ UNCHANGED <<storeVars, reply, call, updateService, agentRequests>>
    \/ /\ \E i \in DOMAIN tasks : Step(i)
       /\ UNCHANGED <<storeVars, reply, call, updateService, agentRequests>>

SpecGate == InitGate /\ [][NextGate]_allVars

(* ------------------------------- claims ------------------------------- *)

\* the normalized (provider, account, to, from) of an event
normalizedTuple(event) ==
    <<toLowerCase(event.provider),
      normalizeEndpoint(IF event.accountId = <<>> THEN DEFAULT ELSE event.accountId),
      normalizeEndpoint(event.to),
      normalizeEndpoint(event.from)>>

sameConversation(i, j) ==
    normalizedTuple(tasks[i].event) = normalizedTuple(tasks[j].event)

inProgress(i) == tasks[i].pc \notin {"queued", "settled"}

commandOf(i) == parseSharedChatCommand(tasks[i].event.text)

\* a message that is none of the commands the channel handles itself
plainMessage(i) == commandOf(i) \notin {"help", "session", "session-new"}

succeeded(i) == tasks[i].pc = "settled" /\ ~tasks[i].threw

\* the session ids whose record is bound to the conversation of task i
boundSessions(i) ==
    {id \in DOMAIN files : boundTo(files[id], tasks[i].conversationKey)}

\* C1: two units of work whose events have the same normalized conversation
\* key are never in progress at the same time, and at most one
\* sendUserMessage call per key is in flight.
C1_NeverConcurrentPerKey ==
    \A i, j \in DOMAIN tasks :
        (i < j /\ (inProgress(i) \/ tasks[i].pc = "sendUserMessage")
               /\ (inProgress(j) \/ tasks[j].pc = "sendUserMessage"))
        => ~sameConversation(i, j)

\* two calls for one conversation in different spellings of the sender: the
\* first is inside sendUserMessage while the second waits in the queue
C1_Witness ==
    \E i, j \in DOMAIN tasks :
        /\ i < j /\ sameConversation(i, j)
        /\ tasks[i].event.from # tasks[j].event.from
        /\ tasks[i].pc = "sendUserMessage"
        /\ tasks[j].pc = "queued"

\* the position of task i in the backend's log of sendUserMessage calls, 0 if absent
sentAt(i) ==
    IF \E k \in DOMAIN sentMessages : sentMessages[k].task = i
    THEN CHOOSE k \in DOMAIN sentMessages : sentMessages[k].task = i
    ELSE 0

\* C2: for calls with the same conversation key the queued work starts in
\* arrival order: a later unit has not started before every earlier one has
\* finished, and the backend sees their messages in arrival order.
C2_ArrivalOrderPerKey ==
    \A i, j \in DOMAIN tasks :
        (i < j /\ sameConversation(i, j)) =>
            /\ (tasks[j].pc # "queued" => tasks[i].pc = "settled")
            /\ (sentAt(j) # 0 /\ sentAt(i) # 0 => sentAt(i) < sentAt(j))
            /\ (sentAt(j) # 0 /\ plainMessage(i) /\ ~tasks[i].threw => sentAt(i) # 0)

\* three messages of one conversation have reached the backend, while the
\* third call arrived before the first had finished
C2_Witness ==
    /\ Len(tasks) = 3
    /\ \A i \in DOMAIN tasks : sameConversation(1, i) /\ sentAt(i) = i
    /\ tasks[3].prior = 2 /\ tasks[2].prior = 1

\* C3: at most one session record is bound to any given non-empty
\* conversation key.
C3_OneBindingPerKey ==
    \A a, b \in DOMAIN files :
        (/\ a # b
         /\ "channelBindings" \in DOMAIN files[a]
         /\ "channelBindings" \in DOMAIN files[b]
         /\ files[a].channelBindings.sms.conversationKey # <<>>)
        => files[a].channelBindings.sms.conversationKey
               # files[b].channelBindings.sms.conversationKey

\* a /session-new has moved the key of a bound conversation to a new record
C3_Witness ==
    \E a, b \in DOMAIN files :
        /\ "channelBindings" \in DOMAIN files[a]
        /\ files[a].channelBindings.sms.conversationKey = <<>>
        /\ "channelBindings" \in DOMAIN files[b]
        /\ files[b].channelBindings.sms.conversationKey # <<>>
        /\ \E i \in DOMAIN tasks : succeeded(i) /\ commandOf(i) = "session-new"
                                     /\ tasks[i].result.sessionId = b

\* no /session-new of the same conversation arrived between calls i and j
noRebindBetween(i, j) ==
    \A k \in DOMAIN tasks :
        (i < k /\ k < j /\ sameConversation(i, k)) => commandOf(k) # "session-new"

\* C4: when an inbound message for the same (provider, account, to, from) is
\* handled a second time after the first was answered from a session, the
\* second call creates no session and returns the same session id.
C4_SecondCallReusesSession ==
    \A i, j \in DOMAIN tasks :
        (/\ i < j /\ sameConversation(i, j)
         /\ plainMessage(i) /\ plainMessage(j) /\ noRebindBetween(i, j)
         /\ succeeded(i))
        => /\ tasks[j].createCalls = 0
           /\ succeeded(j) => tasks[j].result.sessionId = tasks[i].result.sessionId

\* the first call created the session and the second, in another spelling of
\* the sender, was answered from it
C4_Witness ==
    \E i, j \in DOMAIN tasks :
        /\ i < j /\ sameConversation(i, j) /\ plainMessage(i) /\ plainMessage(j)
        /\ tasks[i].event.from # tasks[j].event.from
        /\ succeeded(i) /\ succeeded(j)
        /\ tasks[i].result.createdSession /\ ~tasks[j].result.createdSession
        /\ tasks[j].result.sessionId = tasks[i].result.sessionId

\* no later unit of the conversation of task i has started
noneStartedAfter(i) ==
    \A j \in DOMAIN tasks : (i < j /\ sameConversation(i, j)) => tasks[j].pc = "queued"

\* C5: after a /session-new has completed the new session is the only record
\* bound to the key, and the next plain message of the conversation is sent
\* to the backend under the new session id.
C5_SessionNewRebinds ==
    \A i \in DOMAIN tasks :
        (commandOf(i) = "session-new" /\ succeeded(i)) =>
            /\ tasks[i].result.createdSession
            /\ noneStartedAfter(i) => boundSessions(i) = {tasks[i].result.sessionId}
            /\ \A j \in DOMAIN tasks :
                  (/\ i < j /\ sameConversation(i, j) /\ plainMessage(j)
                   /\ noRebindBetween(i, j) /\ sentAt(j) # 0)
                  => sentMessages[sentAt(j)].sessionId = tasks[i].result.sessionId

\* a message bound the first session, /session-new replaced it, the old
\* record's key is cleared and the next message went to the new session
C5_Witness ==
    /\ Len(tasks) = 3
    /\ sameConversation(1, 2) /\ sameConversation(2, 3)
    /\ plainMessage(1) /\ succeeded(1)
    /\ commandOf(2) = "session-new" /\ succeeded(2)
    /\ tasks[2].result.sessionId # tasks[1].result.sessionId
    /\ files[tasks[1].result.sessionId].channelBindings.sms.conversationKey = <<>>
    /\ plainMessage(3) /\ sentAt(3) # 0
    /\ sentMessages[sentAt(3)].sessionId = tasks[2].result.sessionId

\* C8: a unit in which a store or backend call threw still resolves with
\* ok, status 200, no session id, createdSession false and the fallback
\* reply; no queued unit rejects or returns a status other than 200.
C8_FailuresAbsorbed ==
    /\ Cardinality({i \in DOMAIN tasks : tasks[i].threw}) = faults
    /\ \A i \in DOMAIN tasks :
          /\ tasks[i].pc = "settled" =>
                /\ tasks[i].result.ok
                /\ tasks[i].result.status = 200
          /\ tasks[i].threw =>
                /\ tasks[i].pc = "settled"
                /\ tasks[i].result.sessionId = 0
                /\ ~tasks[i].result.createdSession
                /\ tasks[i].result.response = "fallbackReply"

\* a unit failed after its createSession call had been made
C8_Witness ==
    \E i \in DOMAIN tasks :
        /\ tasks[i].threw /\ tasks[i].createCalls = 1
        /\ tasks[i].pc = "settled"
        /\ tasks[i].result.ok /\ tasks[i].result.response = "fallbackReply"
        /\ DOMAIN files # {}

(* --------------------- claims about the admission checks ---------------- *)

\* the checks of handleInboundWebhook, one predicate each, stated on their own
channelDisabled == ~smsConfig.enabled

unsupportedProvider == providerName(smsConfig) # TWILIO

parseFails(request) ==
    trimToString(request.form.From) = <<>> \/ trimToString(request.form.To) = <<>>

destinationBlocked(request) ==
    LET allowed == allowedSet(smsConfig.twilio.allowedToNumbers)
    IN  allowed # {} /\ normalizeEndpoint(request.form.To) \notin allowed

senderBlocked(request) ==
    LET allowed == allowedSet(smsConfig.twilio.allowedFromNumbers)
    IN  allowed # {} /\ normalizeEndpoint(request.form.From) \notin allowed

\* the credential the signature of this request is checked against
credential(request) ==
    resolveAuthToken(smsConfig.twilio, trimToString(request.form.AccountSid))

\* verification is on, a credential is configured, and the header is missing
\* or differs from the signature computed with that credential
signatureInvalid(request) ==
    /\ smsConfig.twilio.validateSignature
    /\ credential(request) # ""
    /\ request.headers.signature
           # computeTwilioSignature(credential(request), URL, request.form)

\* the channel is on, the provider is supported and the payload parses
eventReceived(request) ==
    ~channelDisabled /\ ~unsupportedProvider /\ ~parseFails(request)

statusOf(result) == IF "status" \in DOMAIN result THEN result.status ELSE 0

reachedQueue(result) == "queued" \in DOMAIN result

\* the step is a webhook call
called == lastCall' # lastCall

\* store, backend and queue are as they were
untouched ==
    UNCHANGED <<files, nextSessionId, sentMessages, conversationQueueTailByKey, tasks>>

\* C6 as stated: with verification enabled every event whose signature is
\* invalid gets status 403.
C6_InvalidSignatureAlways403 ==
    (/\ lastCall # NoCall
     /\ eventReceived(lastCall.request)
     /\ signatureInvalid(lastCall.request))
    => statusOf(lastCall.result) = 403

\* C6: with verification enabled, an event with an invalid signature whose
\* sender passes the sender allow-list gets status 403; one whose sender is
\* blocked and whose destination is allowed gets the canned 200 reply before
\* the signature is looked at; in both cases no createSession or
\* sendUserMessage call is made for it.
C6_InvalidSignatureRejected ==
    [][(/\ called
        /\ eventReceived(lastCall'.request)
        /\ signatureInvalid(lastCall'.request))
       => /\ untouched
          /\ IF senderBlocked(lastCall'.request) /\ ~destinationBlocked(lastCall'.request)
             THEN lastCall'.result = unauthorizedResult
             ELSE statusOf(lastCall'.result) = 403 /\ ~lastCall'.result.ok]_vars

\* a forged signature from an allowed sender was answered 403 while the
\* unit of an earlier, genuine call of the conversation was with the backend
C6_Witness ==
    /\ lastCall # NoCall
    /\ eventReceived(lastCall.request) /\ signatureInvalid(lastCall.request)
    /\ lastCall.request.headers.signature # <<>>
    /\ ~senderBlocked(lastCall.request)
    /\ lastCall.result = Reject(403)
    /\ Len(tasks) = 1 /\ tasks[1].pc = "sendUserMessage"
    /\ tasks[1].event.from = trimToString(lastCall.request.form.From)

\* C7 as stated: every event whose sender is not on a non-empty sender
\* allow-list gets ok/200 with the unauthorized reply and no session id.
C7_BlockedSenderAlwaysCanned ==
    (/\ lastCall # NoCall
     /\ eventReceived(lastCall.request)
     /\ senderBlocked(lastCall.request))
    => lastCall.result = unauthorizedResult

\* C7: an event to an allowed destination whose sender is not on a non-empty
\* sender allow-list gets ok/200 with the unauthorized reply, no session id
\* and no conversation key, whatever its signature; handling it calls no
\* backend, touches no record and does not enter the per-key queue.
C7_BlockedSenderCanned ==
    [][(/\ called
        /\ eventReceived(lastCall'.request)
        /\ ~destinationBlocked(lastCall'.request)
        /\ senderBlocked(lastCall'.request))
       => /\ lastCall'.result = unauthorizedResult
          /\ untouched]_vars

\* a blocked sender with a forged signature got the canned reply while the
\* unit of an allowed sender was past its start and a record existed
C7_Witness ==
    /\ lastCall # NoCall
    /\ eventReceived(lastCall.request)
    /\ ~destinationBlocked(lastCall.request) /\ senderBlocked(lastCall.request)
    /\ signatureInvalid(lastCall.request)
    /\ lastCall.result = unauthorizedResult
    /\ Len(tasks) = 1 /\ inProgress(1) /\ DOMAIN files # {}

\* the result the fixed order of checks prescribes for a request
firstFailure(request) ==
    IF channelDisabled THEN 404
    ELSE IF unsupportedProvider THEN 500
    ELSE IF parseFails(request) THEN 400
    ELSE IF destinationBlocked(request) THEN 403
    ELSE IF senderBlocked(request) THEN 200
    ELSE IF smsConfig.twilio.validateSignature /\ credential(request) = "" THEN 500
    ELSE IF signatureInvalid(request) THEN 403
    ELSE 0

\* C9: the checks are applied in the order disabled (404), unsupported
\* provider (500), parse failure (400), destination blocked (403), sender
\* blocked (200 canned reply), signature verification (500 without a
\* credential, 403 otherwise); a call ends with the outcome of the first
\* check it fails, and reaches the queue only when it fails none.
C9_FirstFailingCheckDecides ==
    lastCall # NoCall =>
        LET status == firstFailure(lastCall.request) IN
        /\ reachedQueue(lastCall.result) <=> status = 0
        /\ status # 0 => statusOf(lastCall.result) = status
        /\ status = 200 <=> lastCall.result = unauthorizedResult
        /\ status \notin {0, 200} => ~lastCall.result.ok

\* a call failing the destination check, the sender check and the signature
\* check at once was answered by the destination check
C9_Witness ==
    /\ lastCall # NoCall
    /\ eventReceived(lastCall.request)
    /\ destinationBlocked(lastCall.request)
    /\ senderBlocked(lastCall.request)
    /\ signatureInvalid(lastCall.request)
    /\ lastCall.result = Reject(403)

\* C10: a webhook call that ends at one of the six checks leaves the store,
\* the backend's call log, the issued session ids, the units of work and the
\* per-key queue map unchanged.
C10_RejectedCallsChangeNothing ==
    [][(called /\ ~reachedQueue(lastCall'.result))
       => untouched /\ UNCHANGED <<smsConfig, faults>>]_vars

\* a call was turned away on a missing signature while an earlier unit was
\* registered in the queue map and running
C10_Witness ==
    /\ lastCall # NoCall
    /\ ~reachedQueue(lastCall.result)
    /\ statusOf(lastCall.result) = 403
    /\ lastCall.request.headers.signature = <<>>
    /\ ~destinationBlocked(lastCall.request)
    /\ Len(tasks) = 1 /\ inProgress(1)
    /\ DOMAIN conversationQueueTailByKey # {}



(* ============================ reply formatter ========================== *)
(* normalizeSmsText, splitTextForSmsMessages and withSmsSequenceLabels on  *)
(* strings written as tuples of characters.                                *)

\* const MIN_CHARS_FOR_SEQUENCE_BODY = 8
MIN_CHARS_FOR_SEQUENCE_BODY == 8
\* const MAX_SEQUENCE_RETRY_PASSES = 4
MAX_SEQUENCE_RETRY_PASSES == 4

\* text.slice(start, end), with 0-based start and exclusive end
slice(text, start, end) ==
    SubSeq(text, start + 1, IF end < Len(text) THEN end ELSE Len(text))

\* parts.join(sep)
RECURSIVE joinWith(_, _)
joinWith(parts, sep) ==
    IF parts = <<>> THEN <<>>
    ELSE IF Len(parts) = 1 THEN parts[1]
    ELSE parts[1] \o sep \o joinWith(Tail(parts), sep)

\* the members of a set of positions 1..n, ascending
inOrder(n, members) ==
    SelectSeq([k \in 1..n |-> k], LAMBDA k : k \in members)

\* text.split(sep) for a one-character separator: the fields between the
\* separators, empty ones kept
splitAt(text, sep) ==
    LET at == <<0>> \o inOrder(Len(text), {k \in 1..Len(text) : text[k] = sep})
                    \o <<Len(text) + 1>>
    IN  [f \in 1..(Len(at) - 1) |-> SubSeq(text, at[f] + 1, at[f + 1] - 1)]

\* text.split(/[seps]+/).filter(Boolean): the maximal runs of other characters
runs(text, seps) ==
    LET n == Len(text)
        starts == inOrder(n, {k \in 1..n : text[k] \notin seps
                                              /\ (k = 1 \/ text[k - 1] \in seps)})
        ends == inOrder(n, {k \in 1..n : text[k] \notin seps
                                            /\ (k = n \/ text[k + 1] \in seps)})
    IN  [f \in 1..Len(starts) |-> SubSeq(text, starts[f], ends[f])]

\* the number of leading characters of text that are in chars, at most limit
leading(text, chars, limit) ==
    LET most == IF limit < Len(text) THEN limit ELSE Len(text)
        others == {k \in 1..most : text[k] \notin chars}
    IN  IF others = {} THEN most
        ELSE (CHOOSE k \in others : \A other \in others : k <= other) - 1

\* line.replace(/^\s{0,3}(#{1,6})\s+/, ""): a heading marker is removed
stripHeading(line) ==
    LET spaces == leading(line, WS, 3)
        afterSpaces == SubSeq(line, spaces + 1, Len(line))
        hashes == leading(afterSpaces, {"#"}, 6)
        afterHashes == SubSeq(afterSpaces, hashes + 1, Len(afterSpaces))
        gap == leading(afterHashes, WS, Len(afterHashes))
    IN  IF hashes >= 1 /\ gap >= 1
        THEN SubSeq(afterHashes, gap + 1, Len(afterHashes))
        ELSE line

\* line.replace(/^\s{0,3}>\s?/, ""): a block quote marker is removed
stripQuote(line) ==
    LET spaces == leading(line, WS, 3)
        afterSpaces == SubSeq(line, spaces + 1, Len(line))
    IN  IF afterSpaces # <<>> /\ Head(afterSpaces) = ">"
        THEN SubSeq(afterSpaces, 2 + leading(Tail(afterSpaces), WS, 1), Len(afterSpaces))
        ELSE line

\* text.replace(/\n{3,}/g, "\n\n"): of a run of three or more newlines the
\* first two are kept
collapseBlankLines(text) ==
    LET kept == inOrder(Len(text), {k \in 1..Len(text) : ~(/\ k >= 3
                                                             /\ text[k] = "\n"
                                                             /\ text[k - 1] = "\n"
                                                             /\ text[k - 2] = "\n")})
    IN  [c \in 1..Len(kept) |-> text[kept[c]]]

\* normalizeSmsText on texts of letters, "#", ">", spaces and newlines: the
\* rewriting of lines and the collapsing of blank lines; the rules for
\* links, code, emphasis, rules and typographic characters find nothing
\* to replace in such texts
normalizeSmsText(value) ==
    LET text == trimToString(value) IN
    IF text = <<>> THEN <<>>
    ELSE LET lines == splitAt(text, "\n")
             stripped == [k \in 1..Len(lines) |-> stripQuote(stripHeading(lines[k]))]
         IN  trimToString(collapseBlankLines(joinWith(stripped, <<"\n">>)))

\* truncateText
truncateText(value, maxChars) ==
    LET text == trimToString(value) IN
    IF maxChars <= 0 \/ Len(text) <= maxChars THEN text
    ELSE IF maxChars <= 3 THEN slice(text, 0, maxChars)
    ELSE slice(text, 0, maxChars - 3) \o <<".", ".", ".">>

\* a pushMessage that keeps nothing
dropMessage(messages, next) == messages

\* pushMessage: the trimmed text is appended unless it is empty
pushMessage(messages, next) ==
    IF trimToString(next) = <<>> THEN messages ELSE Append(messages, trimToString(next))

\* a slicing that stops after the first chunk
sliceWordOnce(word, start, maxChars, messages) ==
    pushMessage(messages, slice(word, start, start + maxChars))

\* for (start = 0; start < word.length; start += maxChars) pushMessage(word.slice(...))
RECURSIVE sliceWord(_, _, _, _)
sliceWord(word, start, maxChars, messages) ==
    IF start >= Len(word) THEN messages
    ELSE sliceWord(word, start + maxChars, maxChars,
                   pushMessage(messages, slice(word, start, start + maxChars)))

\* the loop of splitParagraph over the words, and its final flush
RECURSIVE packWords(_, _, _, _)
packWords(words, current, maxChars, messages) ==
    IF words = <<>>
    THEN (IF current # <<>> THEN pushMessage(messages, current) ELSE messages)
    ELSE LET word == Head(words)
             candidate == IF current # <<>> THEN current \o <<" ">> \o word ELSE word
         IN  IF Len(word) > maxChars
             THEN packWords(Tail(words), <<>>, maxChars,
                            sliceWord(word, 0, maxChars,
                                      IF current # <<>> THEN pushMessage(messages, current)
                                      ELSE messages))
             ELSE IF Len(candidate) <= maxChars
             THEN packWords(Tail(words), candidate, maxChars, messages)
             ELSE packWords(Tail(words), word, maxChars, pushMessage(messages, current))

\* splitParagraph
splitParagraph(paragraph, maxChars, messages) ==
    packWords(runs(paragraph, WS), <<>>, maxChars, messages)

\* the loop of splitTextForSmsMessages over the paragraphs
RECURSIVE packParagraphs(_, _, _)
packParagraphs(paragraphs, maxChars, messages) ==
    IF paragraphs = <<>> THEN messages
    ELSE LET paragraph == Head(paragraphs) IN
         IF Len(paragraph) > maxChars
         THEN packParagraphs(Tail(paragraphs), maxChars,
                             splitParagraph(paragraph, maxChars, messages))
         ELSE IF /\ messages # <<>>
                 /\ Len(messages[Len(messages)]) + 1 + Len(paragraph) <= maxChars
         THEN packParagraphs(Tail(paragraphs), maxChars,
                             [messages EXCEPT ![Len(messages)] = @ \o <<"\n">> \o paragraph])
         ELSE packParagraphs(Tail(paragraphs), maxChars, pushMessage(messages, paragraph))

\* text.split(/\n+/).map(trim).filter(Boolean)
paragraphsOf(text) ==
    LET fields == runs(text, {"\n"})
    IN  SelectSeq([k \in 1..Len(fields) |-> trimToString(fields[k])],
                  LAMBDA f : f # <<>>)

\* a splitting that rebuilds from paragraphs even a text that fits
splitParagraphsAlways(value, maxChars) ==
    packParagraphs(paragraphsOf(trimToString(value)), maxChars, <<>>)

\* splitTextForSmsMessages; a maxChars of 0 stands for an unset budget
splitTextForSmsMessages(value, maxChars) ==
    LET text == trimToString(value) IN
    IF text = <<>> THEN <<>>
    ELSE IF maxChars < 1 \/ Len(text) <= maxChars THEN <<text>>
    ELSE LET messages == packParagraphs(paragraphsOf(text), maxChars, <<>>)
         IN  IF messages # <<>> THEN messages ELSE <<slice(text, 0, maxChars)>>

\* String(count) for count >= 0
RECURSIVE toDigits(_)
toDigits(count) ==
    LET digit == <<"0", "1", "2", "3", "4", "5", "6", "7", "8", "9">>[(count % 10) + 1]
    IN  IF count < 10 THEN <<digit>> ELSE Append(toDigits(count \div 10), digit)

\* a count that is not padded
unpaddedCount(count, width) == toDigits(count)

\* String(count).padStart(width, "0")
formatCount(count, width) ==
    LET digits == toDigits(count)
    IN  [k \in 1..(IF width > Len(digits) THEN width - Len(digits) ELSE 0) |-> "0"] \o digits

\* `[${formatCount(index)}/${formatCount(total)}] `
sequenceLabel(index, total) ==
    LET width == Len(toDigits(total))
    IN  <<"[">> \o formatCount(index, width) \o <<"/">> \o formatCount(total, width)
            \o <<"]", " ">>

\* a labelling of the segments as first split, with no room made for the label
labelWhole(text, maxChars, segments, pass) ==
    [k \in 1..Len(segments) |-> sequenceLabel(k, Len(segments)) \o segments[k]]

\* a labelling that cuts the segments as first split down to the room left
labelTruncated(text, maxChars, segments, pass) ==
    [k \in 1..Len(segments) |->
        LET label == sequenceLabel(k, Len(segments))
        IN  label \o truncateText(segments[k], maxChars - Len(label))]

\* a labelling that re-splits for the room beside the label however little it is
labelWithoutMinimum(text, maxChars, segments, pass) ==
    LET total == Len(segments)
        room == maxChars - Len(sequenceLabel(total, total))
        next == splitTextForSmsMessages(text, IF room > 1 THEN room ELSE 1)
    IN  [k \in 1..Len(next) |-> sequenceLabel(k, Len(next)) \o next[k]]

\* the passes of withSmsSequenceLabels, and the labelling after the last one
RECURSIVE labelPass(_, _, _, _)
labelPass(text, maxChars, segments, pass) ==
    LET total == Len(segments)
        prefix == sequenceLabel(total, total)
        bodyMaxChars == maxChars - Len(prefix)
        next == splitTextForSmsMessages(text, bodyMaxChars)
    IN  IF pass >= MAX_SEQUENCE_RETRY_PASSES
        THEN [k \in 1..total |->
                 LET label == sequenceLabel(k, total)
                     room == IF maxChars - Len(label) > 1 THEN maxChars - Len(label) ELSE 1
                 IN  label \o truncateText(segments[k], room)]
        ELSE IF bodyMaxChars < MIN_CHARS_FOR_SEQUENCE_BODY THEN segments
        ELSE IF Len(next) = total
        THEN [k \in 1..total |-> sequenceLabel(k, total) \o next[k]]
        ELSE labelPass(text, maxChars, next, pass + 1)

\* withSmsSequenceLabels
withSmsSequenceLabels(value, maxChars) ==
    LET text == trimToString(value)
        segments == splitTextForSmsMessages(text, maxChars)
    IN  IF text = <<>> THEN <<>>
        ELSE IF Len(segments) <= 1 \/ maxChars < 1 THEN segments
        ELSE labelPass(text, maxChars, segments, 0)

\* formatSmsReplyMessages
formatSmsReplyMessages(value, maxChars, includeSequenceLabels) ==
    LET normalized == normalizeSmsText(value) IN
    IF normalized = <<>> THEN <<>>
    ELSE IF ~includeSequenceLabels THEN splitTextForSmsMessages(normalized, maxChars)
    ELSE withSmsSequenceLabels(normalized, maxChars)

(* ============================ session store ============================ *)
(* The session store on its file system: names in the sessions directory,  *)
(* inodes holding text, and the calls getSession, upsertSession and        *)
(* listSessions advancing one file-system call at a time.                  *)

\* store calls in one behaviour of SpecStore
MaxOps == 3
\* the latest value Date.now() takes
MaxClock == 2
\* store calls in progress at the same time in SpecStore
MaxConcurrent == 1
\* store calls in progress at the same time in SpecRace
MaxRacing == 3

\* [a-zA-Z0-9._-]
SafeChars == {"a", "b", "x", "z", "A", "B", "X", "0", "1", ".", "_", "-"}

\* String(sessionId).replace(/[^a-zA-Z0-9._-]/g, "_")
sanitizeSessionId(sessionId) ==
    [k \in 1..Len(sessionId) |->
        IF sessionId[k] \in SafeChars THEN sessionId[k] ELSE "_"]

\* a name in the sessions directory: `<sid>.json`, `<sid>.json.tmp-<pid>-<ts>`
\* or `<sid>.json.invalid-<ts>`; the process id is the same in every name
fileName(kind, sid, ts) == [kind |-> kind, sid |-> sid, ts |-> ts]

sessionPath(sessionId) == fileName("json", sanitizeSessionId(sessionId), 0)

\* `${finalPath}.tmp-${process.pid}-${Date.now()}`
tempPath(finalPath, ts) == fileName("tmp", finalPath.sid, ts)

\* the quarantine name without its suffix: the file is renamed onto itself
quarantinePathUnsuffixed(filePath, ts) == filePath

\* `${filePath}.invalid-${Date.now()}`
quarantinePath(filePath, ts) == fileName("invalid", filePath.sid, ts)

\* entry.name.endsWith(".json")
endsWithJson(name) == name.kind = "json"

\* `${JSON.stringify(payload, null, 2)}\n`
stringify(payload) == <<"{", payload, "}", "\n">>

\* JSON.parse succeeds on one complete object followed by whitespace only
parses(text) ==
    /\ Len(text) >= 3
    /\ \A k \in 4..Len(text) : text[k] \in WS

\* the value JSON.parse returns
parse(text) == text[2]

\* typeof value === "number" ? value : 0 for a missing time
toTimestamp(session) ==
    IF "updatedAt" \in DOMAIN session THEN session.updatedAt
    ELSE IF "createdAt" \in DOMAIN session THEN session.createdAt
    ELSE 0

\* sessions.sort((a, b) => bTime - aTime): stable, latest first
RECURSIVE sortSessions(_)
sortSessions(sessions) ==
    IF sessions = <<>> THEN <<>>
    ELSE LET rest == sortSessions(Tail(sessions))
             s == Head(sessions)
             later == SelectSeq(rest, LAMBDA r : toTimestamp(r) > toTimestamp(s))
             others == SelectSeq(rest, LAMBDA r : toTimestamp(r) <= toTimestamp(s))
         IN  later \o <<s>> \o others

\* the names fs.readdir may return, in the order it returns them
DirectoryOrder ==
    <<fileName("json", <<"a">>, 0), fileName("json", <<"b", "_">>, 0)>>

\* what the files named `*.json` hold
jsonFiles ==
    [name \in {n \in DOMAIN dir : endsWithJson(n)} |-> data[dir[name]]]

\* a store call that has just begun
newOp(op, id, patch) ==
    [op |-> op, id |-> id, patch |-> patch,
     pc |-> IF op = "list" THEN "readdir" ELSE "readFile",
     path |-> IF op = "list" THEN Null ELSE sessionPath(id),
     entries |-> <<>>, sessions |-> <<>>,
     payload |-> Null, temp |-> Null, fd |-> 0, failed |-> FALSE,
     torn |-> FALSE, result |-> Null, threw |-> FALSE,
     alone |-> \A k \in DOMAIN ops : ops[k].pc = "done",
     started |-> now, prior |-> jsonFiles]

\* the call returns `result`, or rejects
settled(o, result, threw) ==
    [o EXCEPT !.pc = "done", !.result = result, !.threw = threw,
              !.path = Null, !.entries = <<>>, !.sessions = <<>>,
              !.payload = Null, !.temp = Null, !.fd = 0, !.failed = FALSE]

\* the merge with the spread the other way round: stored fields win over the patch
mergedPatchFirst(o, current) ==
    LET skeleton == IF current = Null THEN [id |-> o.id] ELSE current
        record == spread(spread(o.patch, skeleton), [id |-> o.id, updatedAt |-> now])
    IN  [o EXCEPT !.payload = spread(record, [id |-> o.id]),
                  !.temp = tempPath(sessionPath(o.id), now),
                  !.pc = "open"]

\* upsertSession after its getSession; writeSessionFile up to its first await
merged(o, current) ==
    LET skeleton == IF current = Null THEN [id |-> o.id] ELSE current
        record == spread(spread(skeleton, o.patch), [id |-> o.id, updatedAt |-> now])
    IN  [o EXCEPT !.payload = spread(record, [id |-> o.id]),
                  !.temp = tempPath(sessionPath(o.id), now),
                  !.pc = "open"]

\* listSessions moves on to its next directory entry, or sorts and returns
nextEntry(o) ==
    IF Len(o.entries) <= 1
    THEN settled(o, sortSessions(o.sessions), FALSE)
    ELSE [o EXCEPT !.entries = Tail(@), !.pc = "readEntry", !.path = Null]

\* a listing that gives up at the first file it had to quarantine
afterGetSessionEndsListing(o, current) ==
    IF o.op = "get" THEN settled(o, current, FALSE)
    ELSE IF o.op = "upsert" THEN merged(o, current)
    ELSE settled(o, sortSessions(o.sessions), FALSE)

\* what follows getSession's return of `current` (null after a quarantine)
afterGetSession(o, current) ==
    IF o.op = "get" THEN settled(o, current, FALSE)
    ELSE IF o.op = "upsert" THEN merged(o, current)
    ELSE nextEntry(o)

\* the inodes still named in the directory or held open
live(d, os) == {d[n] : n \in DOMAIN d} \cup {os[k].fd : k \in DOMAIN os}

\* one file-system call of store call i has completed
commit(i, o, d, contents) ==
    LET os == [ops EXCEPT ![i] = o]
    IN  /\ ops' = os
        /\ dir' = d
        /\ data' = [n \in DOMAIN contents \cap live(d, os) |-> contents[n]]
        /\ UNCHANGED now

without(d, name) == [n \in DOMAIN d \ {name} |-> d[n]]

\* fs.rename: the target name takes over the source's inode
renamed(d, from, to) ==
    [n \in (DOMAIN d \ {from}) \cup {to} |-> IF n = to THEN d[from] ELSE d[n]]

\* a store call begins
Call(op, id, patch, width) ==
    /\ Len(ops) < MaxOps
    /\ Cardinality({k \in DOMAIN ops : ops[k].pc # "done"}) < width
    /\ ops' = Append([k \in DOMAIN ops |->
                         IF ops[k].pc = "done" THEN ops[k]
                         ELSE [ops[k] EXCEPT !.alone = FALSE]],
                     newOp(op, id, patch))
    /\ UNCHANGED <<dir, data, now>>

\* time passes
Tick ==
    /\ now < MaxClock
    /\ now' = now + 1
    /\ UNCHANGED <<dir, data, ops>>

\* getSession: readSessionFile, then ENOENT -> null, SyntaxError -> quarantine
GetSessionRead(i) ==
    /\ ops[i].pc = "readFile"
    /\ LET o == ops[i] IN
       IF o.path \notin DOMAIN dir THEN commit(i, afterGetSession(o, Null), dir, data)
       ELSE LET text == data[dir[o.path]] IN
            IF parses(text) THEN commit(i, afterGetSession(o, parse(text)), dir, data)
            ELSE commit(i, [o EXCEPT !.pc = "quarantine", !.torn = @ \/ Len(text) < 3],
                        dir, data)

\* quarantineInvalidSessionFile: fs.rename to the `.invalid-` name; ENOENT is ignored
Quarantine(i) ==
    /\ ops[i].pc = "quarantine"
    /\ LET o == ops[i] IN
       commit(i, afterGetSession(o, Null),
              IF o.path \in DOMAIN dir
              THEN renamed(dir, o.path, quarantinePath(o.path, now)) ELSE dir,
              data)

\* the lowest inode number not in use
freeInode == CHOOSE n \in 1..(MaxOps + 3) :
                 /\ n \notin DOMAIN data
                 /\ \A m \in 1..(n - 1) : m \in DOMAIN data

\* fs.writeFile(tempPath): the file is created, or truncated when the name exists
WriteFileOpen(i) ==
    /\ ops[i].pc = "open"
    /\ LET o == ops[i] IN
       IF o.temp \in DOMAIN dir
       THEN commit(i, [o EXCEPT !.pc = "write", !.fd = dir[o.temp]], dir,
                   [data EXCEPT ![dir[o.temp]] = <<>>])
       ELSE commit(i, [o EXCEPT !.pc = "write", !.fd = freeInode],
                   [n \in DOMAIN dir \cup {o.temp} |->
                       IF n = o.temp THEN freeInode ELSE dir[n]],
                   [n \in DOMAIN data \cup {freeInode} |->
                       IF n = freeInode THEN <<>> ELSE data[n]])

\* fs.writeFile(tempPath): the text is written to the open file, which is closed
WriteFileWrite(i) ==
    /\ ops[i].pc = "write"
    /\ LET o == ops[i] IN
       commit(i, [o EXCEPT !.pc = "rename", !.fd = 0], dir,
              [data EXCEPT ![o.fd] = stringify(o.payload)])

\* fs.rename(tempPath, finalPath); it rejects with ENOENT when the name is gone
Rename(i) ==
    /\ ops[i].pc = "rename"
    /\ LET o == ops[i] IN
       IF o.temp \in DOMAIN dir
       THEN commit(i, [o EXCEPT !.pc = "rm"],
                   renamed(dir, o.temp, sessionPath(o.id)), data)
       ELSE commit(i, [o EXCEPT !.pc = "rm", !.failed = TRUE], dir, data)

\* finally: fs.rm(tempPath, {force: true}); then the payload is returned
Rm(i) ==
    /\ ops[i].pc = "rm"
    /\ LET o == ops[i] IN
       commit(i, settled(o, IF o.failed THEN Null ELSE o.payload, o.failed),
              IF o.temp \in DOMAIN dir THEN without(dir, o.temp) ELSE dir, data)

\* listSessions: fs.readdir, keeping the names that end in .json
ListReaddir(i) ==
    /\ ops[i].pc = "readdir"
    /\ LET o == ops[i]
           entries == SelectSeq(DirectoryOrder, LAMBDA n : n \in DOMAIN dir)
       IN  commit(i, IF entries = <<>> THEN settled(o, <<>>, FALSE)
                     ELSE [o EXCEPT !.entries = entries, !.pc = "readEntry"],
                  dir, data)

\* listSessions: fs.readFile and JSON.parse of the next entry
ListReadEntry(i) ==
    /\ ops[i].pc = "readEntry"
    /\ LET o == ops[i]
           filePath == Head(o.entries)
       IN  IF filePath \notin DOMAIN dir THEN commit(i, nextEntry(o), dir, data)
           ELSE LET text == data[dir[filePath]] IN
                IF parses(text)
                THEN commit(i,
                            nextEntry(IF "id" \in DOMAIN parse(text)
                                      THEN [o EXCEPT !.sessions = Append(@, parse(text))]
                                      ELSE o),
                            dir, data)
                ELSE commit(i, [o EXCEPT !.pc = "quarantine", !.path = filePath,
                                         !.torn = @ \/ Len(text) < 3],
                            dir, data)

StoreStep(i) ==
    \/ GetSessionRead(i)
    \/ Quarantine(i)
    \/ WriteFileOpen(i)
    \/ WriteFileWrite(i)
    \/ Rename(i)
    \/ Rm(i)
    \/ ListReaddir(i)
    \/ ListReadEntry(i)

\* the session ids the callers use; "/" is not a safe character
SessionIds == {<<"a">>, <<"b", "/">>, <<"b", "_">>}

\* the patches the callers pass
Patches == {[title |-> "new"], [id |-> <<"z">>, note |-> "kept"]}

\* records the directory may hold at the start
storedA == [id |-> <<"a">>, title |-> "old", channel |-> "sms", updatedAt |-> 0]
storedB == [id |-> <<"b", "_">>, createdAt |-> 1]

\* the texts a file may hold at the start: a record, a record followed by
\* trailing garbage, an object without id
TextsA == {stringify(storedA), <<"{", storedA, "}", " ", "x">>}
TextsB == {stringify(storedB), <<"{", storedB, "}", "x">>, stringify([title |-> "no id"])}

InitStore ==
    /\ \E a \in TextsA \cup {<<>>}, b \in TextsB \cup {<<>>} :
          LET names == {n \in {1, 2} : (IF n = 1 THEN a ELSE b) # <<>>}
          IN  /\ dir = [name \in {DirectoryOrder[n] : n \in names} |->
                           IF name = DirectoryOrder[1] THEN 1 ELSE 2]
              /\ data = [n \in names |-> IF n = 1 THEN a ELSE b]
    /\ now = 1
    /\ ops = <<>>
    /\ reply = Null
    /\ CallIdle
    /\ UpdateIdle
    /\ AgentIdle
    /\ smsConfig = openConfig /\ files = <<>> /\ nextSessionId = 1
    /\ sentMessages = <<>> /\ conversationQueueTailByKey = <<>>
    /\ tasks = <<>> /\ lastCall = NoCall /\ faults = 0

NextStore ==
    \/ /\ \E id \in SessionIds : Call("get", id, <<>>, MaxConcurrent)
       /\ UNCHANGED <<vars, reply, call, updateService, agentRequests>>
    \/ /\ \E id \in SessionIds, patch \in Patches :
             Call("upsert", id, patch, MaxConcurrent)
       /\ UNCHANGED <<vars, reply, call, updateService, agentRequests>>
    \/ /\ Call("list", <<>>, <<>>, MaxConcurrent)
       /\ UNCHANGED <<vars, reply, call, updateService, agentRequests>>
    \/ /\ Tick
       /\ UNCHANGED <<vars, reply, call, updateService, agentRequests>>
    \/ /\ \E i \in DOMAIN ops : StoreStep(i)
       /\ UNCHANGED <<vars, reply, call, updateService, agentRequests>>

\* SpecStore: calls made one after the other on a directory that may hold
\* valid, corrupt and id-less files
SpecStore == InitStore /\ [][NextStore]_allVars

InitRace ==
    /\ \E a \in {stringify(storedA), <<>>} :
          /\ dir = IF a = <<>> THEN <<>> ELSE (DirectoryOrder[1] :> 1)
          /\ data = IF a = <<>> THEN <<>> ELSE <<a>>
    /\ now = 1
    /\ ops = <<>>
    /\ reply = Null
    /\ CallIdle
    /\ UpdateIdle
    /\ AgentIdle
    /\ smsConfig = openConfig /\ files = <<>> /\ nextSessionId = 1
    /\ sentMessages = <<>> /\ conversationQueueTailByKey = <<>>
    /\ tasks = <<>> /\ lastCall = NoCall /\ faults = 0

NextRace ==
    \/ /\ Call("get", <<"a">>, <<>>, MaxRacing)
       /\ UNCHANGED <<vars, reply, call, updateService, agentRequests>>
    \/ /\ \E patch \in Patches : Call("upsert", <<"a">>, patch, MaxRacing)
       /\ UNCHANGED <<vars, reply, call, updateService, agentRequests>>
    \/ /\ Call("list", <<>>, <<>>, MaxRacing)
       /\ UNCHANGED <<vars, reply, call, updateService, agentRequests>>
    \/ /\ Tick
       /\ UNCHANGED <<vars, reply, call, updateService, agentRequests>>
    \/ /\ \E i \in DOMAIN ops : StoreStep(i)
       /\ UNCHANGED <<vars, reply, call, updateService, agentRequests>>

\* SpecRace: calls on one session id running concurrently
SpecRace == InitRace /\ [][NextRace]_allVars

\* the directory holds one file, whose text is not valid JSON
InitCorrupt ==
    /\ dir = (DirectoryOrder[1] :> 1)
    /\ data = <<<<"{", storedA, "}", " ", "x">>>>
    /\ now = 1
    /\ ops = <<>>
    /\ reply = Null
    /\ CallIdle
    /\ UpdateIdle
    /\ AgentIdle
    /\ smsConfig = openConfig /\ files = <<>> /\ nextSessionId = 1
    /\ sentMessages = <<>> /\ conversationQueueTailByKey = <<>>
    /\ tasks = <<>> /\ lastCall = NoCall /\ faults = 0

\* SpecCorrupt: calls on one session id running concurrently, the file of
\* the id being corrupt at the start
SpecCorrupt == InitCorrupt /\ [][NextRace]_allVars



\* pieces put together into one reply text in SpecReply
MaxPieces == 5

\* a word, a longer word, a token of eight letters, and the characters the
\* normalizer and the splitter look for
Pieces ==
    {<<"a", "b">>, <<"c", "d", "e">>, <<"f", "a", "b", "c", "d", "e", "f", "a">>,
     <<" ">>, <<"\n">>, <<"#">>}

\* the texts made of n pieces
RECURSIVE textsOf(_)
textsOf(n) ==
    IF n = 0 THEN {<<>>}
    ELSE {text \o piece : text \in textsOf(n - 1), piece \in Pieces}

\* a whitespace-free token of n letters
token(n) == [k \in 1..n |-> <<"a", "b", "c", "d", "e", "f">>[((k - 1) % 6) + 1]]

\* n words of eight letters separated by single spaces
RECURSIVE wordsOf(_)
wordsOf(n) ==
    IF n = 1 THEN token(8) ELSE wordsOf(n - 1) \o <<" ">> \o token(8)

\* replies long enough for ten and more segments
LongTexts == {token(100), wordsOf(14), wordsOf(9) \o <<"\n", "\n">> \o token(8)}

\* the calls of the formatter: short texts under small budgets, long texts
\* under budgets around the smallest that leave room for a label
ReplyCalls ==
    {[value |-> value, maxChars |-> maxChars, includeSequenceLabels |-> labels] :
        value \in UNION {textsOf(n) : n \in 0..MaxPieces},
        maxChars \in {1, 2, 3, 5, 8, 14},
        labels \in BOOLEAN}
    \cup {[value |-> value, maxChars |-> maxChars, includeSequenceLabels |-> labels] :
        value \in LongTexts,
        maxChars \in {14, 15, 16, 24},
        labels \in BOOLEAN}

InitReply ==
    /\ \E input \in ReplyCalls : reply = [call |-> input]
    /\ StoreIdle
    /\ CallIdle
    /\ UpdateIdle
    /\ AgentIdle
    /\ smsConfig = openConfig /\ files = <<>> /\ nextSessionId = 1
    /\ sentMessages = <<>> /\ conversationQueueTailByKey = <<>>
    /\ tasks = <<>> /\ lastCall = NoCall /\ faults = 0

\* toReplyMessages: the formatter is applied to the text under the configured budget
toReplyMessages ==
    /\ reply # Null
    /\ "messages" \notin DOMAIN reply
    /\ reply' = [call |-> reply.call,
                 messages |-> formatSmsReplyMessages(reply.call.value, reply.call.maxChars,
                                                     reply.call.includeSequenceLabels)]

NextReply ==
    /\ toReplyMessages
    /\ UNCHANGED <<vars, storeVars, call, updateService, agentRequests>>

SpecReply == InitReply /\ [][NextReply]_allVars

(* ----------------------- claims about the session store ---------------- *)

\* C11: while upserts are in progress (two of them to the same id included),
\* no getSession or listSessions reads a partially written record: every
\* text a reader finds under a `.json` name is a complete record.
C11_ReadersSeeWholeRecords ==
    \A i \in DOMAIN ops : ~ops[i].torn


\* store call i ran from start to end with no other call in progress
ranAlone(i) == ops[i].pc = "done" /\ ops[i].alone

\* no call has begun since call i
latest(i) == i = Len(ops)

\* the `.json` name call i reads and writes
pathOf(i) == sessionPath(ops[i].id)

\* the file of call i's session id held text that is not valid JSON when the call began
corruptAtStart(i) ==
    pathOf(i) \in DOMAIN ops[i].prior /\ ~parses(ops[i].prior[pathOf(i)])

\* `text` has been moved aside from `name` under an `.invalid-` name
movedAside(name, text) ==
    /\ name \notin DOMAIN dir
    /\ \E q \in DOMAIN dir :
          q.kind = "invalid" /\ q.sid = name.sid /\ data[dir[q]] = text

\* the directory holds `record` under `name`, as one complete text
persisted(name, record) ==
    /\ name \in DOMAIN dir
    /\ parses(data[dir[name]])
    /\ parse(data[dir[name]]) = record

\* call j is the call after i, on the same id, of kind `op`, and ran alone
followedBy(i, j, op) ==
    /\ j = i + 1 /\ j \in DOMAIN ops
    /\ ops[j].op = op /\ ops[j].id = ops[i].id /\ ranAlone(j)

\* C12: getSession on a file whose text is not valid JSON does not throw and
\* returns null, leaving the text under an `.invalid-` name and nothing
\* under the `.json` name; an upsertSession that follows writes a record
\* made of the patch alone, and the getSession after it returns that record.
C12_CorruptRecordQuarantined ==
    \A i \in DOMAIN ops :
        (ops[i].op = "get" /\ ranAlone(i) /\ corruptAtStart(i)) =>
            /\ ~ops[i].threw
            /\ ops[i].result = Null
            /\ latest(i) => movedAside(pathOf(i), ops[i].prior[pathOf(i)])
            /\ \A j \in DOMAIN ops : followedBy(i, j, "upsert") =>
                  /\ ~ops[j].threw
                  /\ DOMAIN ops[j].result = DOMAIN ops[j].patch \cup {"id", "updatedAt"}
                  /\ ops[j].result.id = ops[j].id
                  /\ \A f \in DOMAIN ops[j].patch \ {"id"} :
                        ops[j].result[f] = ops[j].patch[f]
                  /\ latest(j) => persisted(pathOf(j), ops[j].result)
                  /\ \A k \in DOMAIN ops : followedBy(j, k, "get") =>
                        ~ops[k].threw /\ ops[k].result = ops[j].result

\* a record with trailing garbage was read, moved aside and replaced: get
\* returned null, the upsert wrote the patch, the second get returned it
C12_Witness ==
    /\ Len(ops) = 3
    /\ ops[1].op = "get" /\ ranAlone(1) /\ corruptAtStart(1)
    /\ Len(ops[1].prior[pathOf(1)]) > 4
    /\ ops[1].result = Null
    /\ followedBy(1, 2, "upsert") /\ followedBy(2, 3, "get")
    /\ ops[3].result = ops[2].result /\ ops[3].result # Null
    /\ \E q \in DOMAIN dir : q.kind = "invalid"
    /\ persisted(pathOf(1), ops[3].result)

\* the records a listing must return, given what the `.json` files held
validRecords(texts) ==
    {parse(texts[n]) : n \in {m \in DOMAIN texts :
                                 parses(texts[m]) /\ "id" \in DOMAIN parse(texts[m])}}

\* C13: listSessions over a directory of valid and unparseable files does
\* not throw and returns exactly the valid records that have an id, each
\* once, latest first; every unparseable file is moved aside under its own
\* `.invalid-` name and every parseable file stays where it was.
C13_ListSkipsCorruptRecords ==
    \A i \in DOMAIN ops :
        (ops[i].op = "list" /\ ranAlone(i)) =>
            /\ ~ops[i].threw
            /\ {ops[i].result[k] : k \in DOMAIN ops[i].result} = validRecords(ops[i].prior)
            /\ Len(ops[i].result) = Cardinality(validRecords(ops[i].prior))
            /\ \A k \in 1..(Len(ops[i].result) - 1) :
                  toTimestamp(ops[i].result[k]) >= toTimestamp(ops[i].result[k + 1])
            /\ latest(i) =>
                  \A n \in DOMAIN ops[i].prior :
                      IF parses(ops[i].prior[n])
                      THEN n \in DOMAIN dir /\ data[dir[n]] = ops[i].prior[n]
                      ELSE movedAside(n, ops[i].prior[n])

\* the first file listed was corrupt and the second valid: the listing
\* returned the valid record and moved the corrupt file aside
C13_Witness ==
    \E i \in DOMAIN ops :
        /\ ops[i].op = "list" /\ ranAlone(i) /\ latest(i)
        /\ DOMAIN ops[i].prior = {DirectoryOrder[1], DirectoryOrder[2]}
        /\ ~parses(ops[i].prior[DirectoryOrder[1]])
        /\ ops[i].result = <<storedB>>
        /\ movedAside(DirectoryOrder[1], ops[i].prior[DirectoryOrder[1]])
        /\ DirectoryOrder[2] \in DOMAIN dir

\* the record getSession would have returned when call i began, or the skeleton
recordAtStart(i) ==
    IF pathOf(i) \in DOMAIN ops[i].prior /\ parses(ops[i].prior[pathOf(i)])
    THEN parse(ops[i].prior[pathOf(i)])
    ELSE [id |-> ops[i].id]

\* C14: upsertSession(id, patch) returns and persists the record stored for
\* id (or the skeleton {id}) overridden field by field by the patch, with id
\* set to the requested id and updatedAt set to the time of the call; fields
\* the patch does not name are kept, and a following getSession(id) returns
\* the same record.
C14_UpsertMergesPatch ==
    \A i \in DOMAIN ops :
        (ops[i].op = "upsert" /\ ranAlone(i)) =>
            /\ ~ops[i].threw
            /\ DOMAIN ops[i].result =
                   DOMAIN recordAtStart(i) \cup DOMAIN ops[i].patch \cup {"id", "updatedAt"}
            /\ \A f \in DOMAIN ops[i].result :
                  IF f = "id" THEN ops[i].result[f] = ops[i].id
                  ELSE IF f = "updatedAt"
                       THEN ops[i].result[f] >= ops[i].started /\ ops[i].result[f] <= now
                  ELSE IF f \in DOMAIN ops[i].patch
                       THEN ops[i].result[f] = ops[i].patch[f]
                  ELSE ops[i].result[f] = recordAtStart(i)[f]
            /\ latest(i) => persisted(pathOf(i), ops[i].result)
            /\ \A j \in DOMAIN ops : followedBy(i, j, "get") =>
                  ~ops[j].threw /\ ops[j].result = ops[i].result

\* a stored record was patched twice and read back: the second patch names
\* another id, yet the record keeps its id, the first patch's title and the
\* stored channel
C14_Witness ==
    /\ Len(ops) = 3
    /\ ops[1].op = "upsert" /\ ranAlone(1) /\ recordAtStart(1) = storedA
    /\ ops[1].patch = [title |-> "new"]
    /\ followedBy(1, 2, "upsert") /\ "note" \in DOMAIN ops[2].patch
    /\ followedBy(2, 3, "get")
    /\ ops[3].result.id = <<"a">> /\ ops[3].result.title = "new"
    /\ ops[3].result.channel = "sms" /\ ops[3].result.note = "kept"
    /\ ops[3].result.updatedAt = 2



(* ======================= replies of the provider adapter ================== *)

\* segments in one list handed to formatReply or sendReply in SpecAdapter
MaxTexts == 3

\* escapeXml: every "&", "<", ">", double and single quote becomes its entity
escapeChar(c) ==
    CASE c = "&" -> <<"&", "a", "m", "p", ";">>
      [] c = "<" -> <<"&", "l", "t", ";">>
      [] c = ">" -> <<"&", "g", "t", ";">>
      [] c = "\"" -> <<"&", "q", "u", "o", "t", ";">>
      [] c = "'" -> <<"&", "a", "p", "o", "s", ";">>
      [] OTHER -> <<c>>

RECURSIVE escapeXml(_)
escapeXml(value) ==
    IF value = <<>> THEN <<>>
    ELSE IF Len(value) = 1 THEN escapeChar(value[1])
    ELSE LET half == Len(value) \div 2
         IN  escapeXml(SubSeq(value, 1, half)) \o escapeXml(SubSeq(value, half + 1, Len(value)))

\* the markup of the envelope: a tag is one element of the text, a character
\* of a message is another
XML_DECLARATION == "<?xml version=\"1.0\" encoding=\"UTF-8\"?>"

\* messages.map((text) => `<Message>${escapeXml(text)}</Message>`).join("")
RECURSIVE xmlMessages(_)
xmlMessages(messages) ==
    IF messages = <<>> THEN <<>>
    ELSE <<"<Message>">> \o escapeXml(Head(messages)) \o <<"</Message>">>
            \o xmlMessages(Tail(messages))

\* a formatReply that does not filter its texts
formatReplyUnfiltered(texts) ==
    <<XML_DECLARATION, "<Response>">> \o xmlMessages(texts) \o <<"</Response>">>

\* formatReply
formatReply(texts) ==
    LET messages == SelectSeq(texts, LAMBDA text : Len(text) > 0)
    IN  IF messages = <<>> THEN <<XML_DECLARATION, "<Response>", "</Response>">>
        ELSE <<XML_DECLARATION, "<Response>">> \o xmlMessages(messages) \o <<"</Response>">>

\* buildReplyPayload
buildReplyPayload(messages) ==
    [contentType |-> "text/xml; charset=utf-8", body |-> formatReply(messages)]

\* "I hit an error processing that. Please try again shortly."
DEFAULT_FALLBACK_REPLY ==
    <<"I", " ", "h", "i", "t", " ", "a", "n", " ", "e", "r", "r", "o", "r", " ", "p",
      "r", "o", "c", "e", "s", "s", "i", "n", "g", " ", "t", "h", "a", "t", ".", " ", "P",
      "l", "e", "a", "s", "e", " ", "t", "r", "y", " ", "a", "g", "a", "i", "n", " ", "s",
      "h", "o", "r", "t", "l", "y", ".">>

\* fallbackReplyMessages, made when the service is created
fallbackReplyMessages(config) ==
    formatSmsReplyMessages(
        IF config.fallbackReply # <<>> THEN config.fallbackReply ELSE DEFAULT_FALLBACK_REPLY,
        config.maxReplyChars, config.includeSequenceLabels)

\* toReplyMessages(reply.assistantText || fallbackReplyMessages.join("\n"))
assistantReplyMessages(config, fallback, assistantText) ==
    formatSmsReplyMessages(
        IF assistantText # <<>> THEN assistantText ELSE joinWith(fallback, <<"\n">>),
        config.maxReplyChars, config.includeSequenceLabels)

\* the end of the unit of work once the backend has answered: the reply is
\* formatted and the response built from it
AssistantReply ==
    /\ call # Null /\ call.op = "assistantReply" /\ call.pc = "called"
    /\ \E messages \in {assistantReplyMessages(call.config, call.fallbackReplyMessages,
                                                call.assistantText)} :
          call' = [call EXCEPT
                !.pc = "done",
                !.result = [ok |-> TRUE, status |-> 200,
                            response |-> buildReplyPayload(messages)]]

\* a call of formatReply
FormatReply ==
    /\ call # Null /\ call.op = "formatReply" /\ call.pc = "called"
    /\ call' = [call EXCEPT !.pc = "done", !.result = formatReply(call.texts)]


\* a sendReply that counts the failed request among those sent
afterFailureCounted(c, result) ==
    [c EXCEPT !.pc = "done", !.result = [result EXCEPT !.sentCount = @ + 1]]

\* sendReply returns from inside the loop with what was sent so far
afterFailure(c, result) == [c EXCEPT !.pc = "done", !.result = result]

\* sendReply up to its loop: the texts are filtered, the event and the
\* credential are looked at
SendReplyBegin ==
    /\ call # Null /\ call.op = "sendReply" /\ call.pc = "called"
    /\ LET messages == SelectSeq(call.texts, LAMBDA text : Len(text) > 0)
           accountId == trimToString(first(call.event.accountId))
           from == trimToString(first(call.event.to))
           to == trimToString(first(call.event.from))
           authToken == resolveAuthToken(call.twilioConfig, accountId)
           returns(result) == call' = [call EXCEPT !.pc = "done", !.result = result]
       IN  IF messages = <<>>
           THEN returns([ok |-> TRUE, sentCount |-> 0, messageIds |-> <<>>])
           ELSE IF accountId = <<>> \/ from = <<>> \/ to = <<>>
           THEN returns([ok |-> FALSE, status |-> 400, sentCount |-> 0])
           ELSE IF authToken = ""
           THEN returns([ok |-> FALSE, status |-> 500, sentCount |-> 0])
           ELSE call' = [call EXCEPT !.pc = "fetch", !.messages = messages]

\* the request of one turn of the loop, as posted
posted(c) ==
    [c EXCEPT !.requests = Append(@, [From |-> trimToString(first(c.event.to)),
                                      To |-> trimToString(first(c.event.from)),
                                      Body |-> c.messages[c.sentCount + 1]])]

\* one turn of the loop with a response that is ok, with or without a sid
SendReplyFetchOk ==
    /\ call # Null /\ call.op = "sendReply" /\ call.pc = "fetch"
    /\ \E sid \in {"", "SM"} :
          LET c == posted(call)
              messageIds == IF sid # "" THEN Append(c.messageIds, sid) ELSE c.messageIds
              sentCount == c.sentCount + 1
          IN  call' =
                IF sentCount >= Len(c.messages)
                THEN [c EXCEPT !.pc = "done", !.sentCount = sentCount,
                               !.messageIds = messageIds,
                               !.result = [ok |-> TRUE, sentCount |-> sentCount,
                                           messageIds |-> messageIds]]
                ELSE [c EXCEPT !.sentCount = sentCount, !.messageIds = messageIds]

\* one turn of the loop with a response that is not ok
SendReplyFetchRejected ==
    /\ call # Null /\ call.op = "sendReply" /\ call.pc = "fetch"
    /\ call' = afterFailure(posted(call),
                            [ok |-> FALSE, status |-> 429, sentCount |-> call.sentCount])

\* one turn of the loop with a fetch that throws
SendReplyFetchThrows ==
    /\ call # Null /\ call.op = "sendReply" /\ call.pc = "fetch"
    /\ call' = afterFailure(posted(call),
                            [ok |-> FALSE, status |-> 502, sentCount |-> call.sentCount])

\* the conversation keys of two events
ConversationKeys ==
    /\ call # Null /\ call.op = "createSmsConversationKey" /\ call.pc = "called"
    /\ LET keyOf(event) == createSmsConversationKey(event.provider, event.accountId,
                                                    event.to, event.from)
       IN  call' = [call EXCEPT !.pc = "done",
                                !.result = <<keyOf(call.left), keyOf(call.right)>>]

\* a call of parseSharedChatCommand
ParseSharedChatCommand ==
    /\ call # Null /\ call.op = "parseSharedChatCommand" /\ call.pc = "called"
    /\ call' = [call EXCEPT !.pc = "done", !.result = parseSharedChatCommand(call.value)]

\* a call of verifyRequest
VerifyRequest ==
    /\ call # Null /\ call.op = "verifyRequest" /\ call.pc = "called"
    /\ call' = [call EXCEPT !.pc = "done",
                            !.result = verifyRequest(call.twilioConfig, call.headers,
                                                     call.form, call.signatureUrl)]

\* a call made of the adapter or of the reply path, not yet begun
adapterCall(op, fields) ==
    [op |-> op, pc |-> "called", result |-> Null] @@ fields

\* the texts replies are made of: empty, blank, markup alone, plain, with
\* characters the envelope escapes, and longer than a budget
AssistantTexts ==
    {<<>>, <<" ">>, <<"\n", " ">>, <<">">>, <<">", " ">>, <<"#", " ", "a">>,
     <<"a", "b">>, <<">", "a", "b">>, <<"a", "<", "b", "&", ">">>,
     <<"a", "b", "\n", "\n", "\n", "c", "d", "e">>, token(20), wordsOf(3)}

\* lists of at most n texts
RECURSIVE listsOf(_, _)
listsOf(texts, n) ==
    IF n = 0 THEN {<<>>}
    ELSE listsOf(texts, n - 1)
            \cup {Append(list, text) : list \in listsOf(texts, n - 1), text \in texts}

\* texts around the command words: the word alone, padded, followed by
\* whitespace and a title, extended by other characters, in another case
CommandTexts ==
    {pad \o word \o suffix :
        pad \in {<<>>, <<" ">>},
        word \in {HELP_COMMAND, SESSION_COMMAND, SESSION_NEW_COMMAND,
                  <<"/", "H", "E", "L", "P">>, <<"/", "S", "e", "s", "s", "i", "o", "n">>,
                  <<"/", "h", "e", "l">>, HI},
        suffix \in {<<>>, <<" ">>, <<" ", "x">>, <<"\n", "x">>, <<"x">>,
                    <<"i", "s", "h">>, <<"-", "n", "e", "w">>,
                    <<"-", "N", "E", "W">>, <<"-", "n", "e", "w", " ", "x">>}}

ACCOUNT == <<"A", "C">>

\* the credentials of verifyRequest: a default token or none, and a token
\* for one account or for none; config.js keeps no empty token
VerifyConfigs ==
    [validateSignature : BOOLEAN,
     authToken : {"", "tok"},
     authTokensByAccountSid : {<<>>, [sid \in {ACCOUNT} |-> "tokAC"]}]

VerifyForms ==
    {form(<<"a">>, <<"x">>, accountSid, body) :
        accountSid \in {<<>>, ACCOUNT, <<"Z", "Z">>},
        body \in {HI, <<"y", "o">>}}

\* the signature header: missing, signed with a configured or with another
\* token, over this or another URL, over this or another form, or over the
\* parameters in the order they were posted
VerifySignatures(f) ==
    {<<>>}
    \cup {computeTwilioSignature(secret, url, signedForm) :
            secret \in {"tok", "tokAC", "tokX"},
            url \in {URL, "https://other/channels/sms/inbound"},
            signedForm \in {f, [f EXCEPT !.Body = <<"h", "o">>]}}
    \cup {<<secret, <<URL, "From", f.From, "To", f.To, "AccountSid", f.AccountSid,
                     "Body", f.Body>>>> : secret \in {"tok", "tokAC"}}

\* events as parseInbound makes them: addresses in two spellings, with and
\* without a scheme before the number, an account id that is absent,
\* spelled out as "default", or another
KeyEvents ==
    [provider : {TWILIO, <<"X">>},
     accountId : {<<>>, DEFAULT, <<"A">>},
     to : {<<"x">>, <<"x", ":", "a">>},
     from : {<<"a">>, <<"A", " ", "a">>, <<"a", "a">>, <<"a", ":", "a">>}]

\* SpecAdapter: one call of the reply path, of formatReply, of sendReply, of
\* parseSharedChatCommand, of verifyRequest or of createSmsConversationKey,
\* from its arguments to its result
AdapterCalls ==
    {adapterCall("assistantReply",
                 [assistantText |-> text,
                  config |-> config,
                  fallbackReplyMessages |-> fallbackReplyMessages(config)]) :
        text \in AssistantTexts,
        config \in [maxReplyChars : {0, 5, 60}, includeSequenceLabels : BOOLEAN,
                    fallbackReply : {<<>>, <<"o", "o", "p", "s">>, <<" ">>}]}
    \cup {adapterCall("formatReply", [texts |-> texts]) :
            texts \in listsOf({<<>>, <<"a">>, <<"<", "b", ">">>, <<"a", "&", "'">>}, MaxTexts)}
    \cup {adapterCall("sendReply",
                      [texts |-> texts,
                       event |-> [accountId |-> accountId, from |-> from, to |-> <<"+", "2">>],
                       twilioConfig |-> [authToken |-> authToken,
                                         authTokensByAccountSid |-> <<>>],
                       messages |-> <<>>, requests |-> <<>>,
                       sentCount |-> 0, messageIds |-> <<>>]) :
            texts \in listsOf({<<>>, <<"a">>, <<"b">>}, MaxTexts),
            accountId \in {<<"A", "C">>, <<>>},
            from \in {<<"+", "1">>, <<" ">>},
            authToken \in {"", "tok"}}
    \cup {adapterCall("parseSharedChatCommand", [value |-> text]) : text \in CommandTexts}
    \cup {adapterCall("createSmsConversationKey", [left |-> left, right |-> right]) :
            left \in KeyEvents, right \in KeyEvents}
    \cup {adapterCall("verifyRequest",
                      [twilioConfig |-> twilioConfig, form |-> f,
                       headers |-> [signature |-> signature], signatureUrl |-> URL]) :
            twilioConfig \in VerifyConfigs, f \in VerifyForms,
            signature \in UNION {VerifySignatures(g) : g \in VerifyForms}}

InitAdapter ==
    /\ call \in AdapterCalls
    /\ UpdateIdle
    /\ AgentIdle
    /\ StoreIdle
    /\ ReplyIdle
    /\ smsConfig = openConfig /\ files = <<>> /\ nextSessionId = 1
    /\ sentMessages = <<>> /\ conversationQueueTailByKey = <<>>
    /\ tasks = <<>> /\ lastCall = NoCall /\ faults = 0

NextAdapter ==
    \/ /\ AssistantReply
       /\ UNCHANGED <<vars, storeVars, reply, updateService, agentRequests>>
    \/ /\ FormatReply
       /\ UNCHANGED <<vars, storeVars, reply, updateService, agentRequests>>
    \/ /\ SendReplyBegin
       /\ UNCHANGED <<vars, storeVars, reply, updateService, agentRequests>>
    \/ /\ SendReplyFetchOk
       /\ UNCHANGED <<vars, storeVars, reply, updateService, agentRequests>>
    \/ /\ SendReplyFetchRejected
       /\ UNCHANGED <<vars, storeVars, reply, updateService, agentRequests>>
    \/ /\ SendReplyFetchThrows
       /\ UNCHANGED <<vars, storeVars, reply, updateService, agentRequests>>
    \/ /\ ParseSharedChatCommand
       /\ UNCHANGED <<vars, storeVars, reply, updateService, agentRequests>>
    \/ /\ VerifyRequest
       /\ UNCHANGED <<vars, storeVars, reply, updateService, agentRequests>>
    \/ /\ ConversationKeys
       /\ UNCHANGED <<vars, storeVars, reply, updateService, agentRequests>>

SpecAdapter == InitAdapter /\ [][NextAdapter]_allVars

(* ----------------------- claims about the reply formatter -------------- *)

\* the formatter has returned
replied == reply # Null /\ "messages" \in DOMAIN reply

\* the normalized form of the text the formatter was called with
normalizedReply == normalizeSmsText(reply.call.value)

\* the whitespace-delimited words of a text, in order
wordsIn(text) == runs(text, WS)

\* C15: for every text and every budget maxChars >= 1, each returned segment
\* is at most maxChars characters long, without labels and with labels (the
\* label counted)
C15_SegmentsFitBudget ==
    (replied /\ reply.call.maxChars >= 1)
        => \A k \in DOMAIN reply.messages : Len(reply.messages[k]) <= reply.call.maxChars

\* a labelled reply of ten or more segments, one of them filling the budget
C15_Witness ==
    /\ replied
    /\ reply.call.includeSequenceLabels
    /\ Len(reply.messages) >= 10
    /\ reply.messages[1][1] = "["
    /\ \E k \in DOMAIN reply.messages : Len(reply.messages[k]) = reply.call.maxChars


\* the returned segments joined with single spaces
rejoined(segments) == joinWith(segments, <<" ">>)

\* every word of the text is at most budget characters long
wordsFit(text, budget) == \A k \in DOMAIN wordsIn(text) : Len(wordsIn(text)[k]) <= budget

\* C16 as stated: for all texts and a fixed budget, the unlabelled segments
\* joined with single spaces have the words of the normalized input, in order
C16_WordsAlwaysKept ==
    (replied /\ ~reply.call.includeSequenceLabels /\ reply.call.maxChars >= 1)
        => wordsIn(rejoined(reply.messages)) = wordsIn(normalizedReply)

\* C16: the unlabelled segments joined with single spaces have the characters
\* of the normalized input in order, whitespace aside, and have its words in
\* order when no word is longer than the budget
C16_WordsKeptWhenTheyFit ==
    (replied /\ ~reply.call.includeSequenceLabels /\ reply.call.maxChars >= 1)
        => /\ RemoveWs(rejoined(reply.messages)) = RemoveWs(normalizedReply)
           /\ wordsFit(normalizedReply, reply.call.maxChars)
                => wordsIn(rejoined(reply.messages)) = wordsIn(normalizedReply)

\* a text of several paragraphs whose words fit is returned in three or more
\* segments, one of them made of two paragraphs
C16_Witness ==
    /\ replied
    /\ ~reply.call.includeSequenceLabels
    /\ Len(reply.messages) >= 3
    /\ wordsFit(normalizedReply, reply.call.maxChars)
    /\ Len(wordsIn(normalizedReply)) > Len(reply.messages)
    /\ \E k \in DOMAIN reply.messages : "\n" \in {reply.messages[k][c] : c \in DOMAIN reply.messages[k]}

\* the segment without its label: the text after the first "] " of a segment
\* that starts with "["
stripLabel(segment) ==
    IF segment # <<>> /\ segment[1] = "[" /\ \E c \in DOMAIN segment : segment[c] = "]"
    THEN LET close == CHOOSE c \in DOMAIN segment :
                          /\ segment[c] = "]"
                          /\ \A b \in 1..(c - 1) : segment[b] # "]"
         IN  SubSeq(segment, close + 2, Len(segment))
    ELSE segment

\* the bodies of the returned segments
bodies == [k \in DOMAIN reply.messages |-> stripLabel(reply.messages[k])]

\* the characters of a segment left for its body
bodyBudget == reply.call.maxChars - (Len(reply.messages[1]) - Len(bodies[1]))

C18_ShortTextAlwaysOneSegment ==
    (replied /\ Len(normalizedReply) < reply.call.maxChars)
        => reply.messages = <<normalizedReply>>

\* C18: a text whose normalized form is not empty and not longer than the
\* budget comes back as exactly one segment, the normalized input, with no
\* label and nothing cut, with labels enabled or not; a text whose normalized
\* form is empty comes back as no segment
C18_FittingTextOneSegment ==
    (replied /\ reply.call.maxChars >= 1 /\ Len(normalizedReply) <= reply.call.maxChars)
        => reply.messages = IF normalizedReply = <<>> THEN <<>> ELSE <<normalizedReply>>

\* with labels enabled, a text of two lines that normalizing has rewritten
\* and that fills the budget exactly comes back whole
C18_Witness ==
    /\ replied
    /\ reply.call.includeSequenceLabels
    /\ normalizedReply # reply.call.value
    /\ "\n" \in {normalizedReply[c] : c \in DOMAIN normalizedReply}
    /\ Len(normalizedReply) = reply.call.maxChars
    /\ reply.messages = <<normalizedReply>>

\* the normalized input is one whitespace-free token longer than the budget,
\* split without labels
longToken ==
    /\ replied
    /\ ~reply.call.includeSequenceLabels
    /\ reply.call.maxChars >= 1
    /\ Len(normalizedReply) > reply.call.maxChars
    /\ \A c \in DOMAIN normalizedReply : normalizedReply[c] \notin WS

\* C19: a whitespace-free token of length len greater than the budget comes
\* back as exactly ceil(len / budget) segments, each budget characters long
\* except possibly the last, which put together in order are the token
C19_LongTokenChunked ==
    longToken
        => /\ Len(reply.messages)
                = (Len(normalizedReply) + reply.call.maxChars - 1) \div reply.call.maxChars
           /\ \A k \in 1..(Len(reply.messages) - 1) :
                Len(reply.messages[k]) = reply.call.maxChars
           /\ joinWith(reply.messages, <<>>) = normalizedReply

\* a token of 100 characters under budget 16: seven segments, the last of four
C19_Witness ==
    /\ longToken
    /\ Len(normalizedReply) = 100
    /\ reply.call.maxChars = 16
    /\ Len(reply.messages) = 7
    /\ Len(reply.messages[7]) = 4

\* the number a digit character stands for
digitValue(c) == CHOOSE d \in 0..9 : toDigits(d) = <<c>>

\* the number written in the width characters of text from position start,
\* or -1 when they are not all digits
RECURSIVE numberAt(_, _, _)
numberAt(text, start, width) ==
    IF width = 0 THEN 0
    ELSE LET c == text[start + width - 1]
             rest == numberAt(text, start, width - 1)
         IN  IF c \notin {"0", "1", "2", "3", "4", "5", "6", "7", "8", "9"} \/ rest < 0
             THEN -1
             ELSE 10 * rest + digitValue(c)

\* the segment starts with "[index/total] ", both numbers written in as many
\* digits as total has
labelledAs(segment, index, total) ==
    LET width == Len(toDigits(total)) IN
    /\ Len(segment) >= 2 * width + 4
    /\ segment[1] = "["
    /\ numberAt(segment, 2, width) = index
    /\ segment[width + 2] = "/"
    /\ numberAt(segment, width + 3, width) = total
    /\ segment[2 * width + 3] = "]"
    /\ segment[2 * width + 4] = " "

\* labels are enabled and more than one segment has come back
severalSegments ==
    /\ replied
    /\ reply.call.includeSequenceLabels
    /\ reply.call.maxChars >= 1
    /\ Len(reply.messages) > 1

\* C20 as stated: with labels enabled, whenever N > 1 segments come back
\* every segment starts with "[i/N] ", i its position, both zero-padded to
\* the digit count of N
C20_SeveralSegmentsAlwaysLabelled ==
    severalSegments
        => \A k \in DOMAIN reply.messages :
                labelledAs(reply.messages[k], k, Len(reply.messages))

\* C20: with labels enabled, whenever N > 1 segments come back and the budget
\* leaves at least MIN_CHARS_FOR_SEQUENCE_BODY characters beside the label
\* "[N/N] ", every segment starts with "[i/N] ", i its position, both
\* zero-padded to the digit count of N; when the budget leaves less, no
\* segment has a label
C20_LabelledWhenRoomForBody ==
    severalSegments
        => LET total == Len(reply.messages)
               room == reply.call.maxChars - (2 * Len(toDigits(total)) + 4)
           IN  IF room >= MIN_CHARS_FOR_SEQUENCE_BODY
               THEN \A k \in DOMAIN reply.messages : labelledAs(reply.messages[k], k, total)
               ELSE \A k \in DOMAIN reply.messages : reply.messages[k][1] # "["

\* ten or more segments come back labelled, the first as "[01/N] "
C20_Witness ==
    /\ severalSegments
    /\ Len(reply.messages) >= 10
    /\ \A k \in DOMAIN reply.messages :
            labelledAs(reply.messages[k], k, Len(reply.messages))
    /\ SubSeq(reply.messages[1], 1, 4) = <<"[", "0", "1", "/">>


\* the length of the label "[N/N] " of a reply of total segments
labelLength(total) == 2 * Len(toDigits(total)) + 4

\* labels are enabled and the text, split at the budget, has several segments
\* whose label would leave less than the minimum body width
noRoomForLabel ==
    /\ replied
    /\ reply.call.includeSequenceLabels
    /\ reply.call.maxChars >= 1
    /\ LET total == Len(splitTextForSmsMessages(normalizedReply, reply.call.maxChars))
       IN  /\ total > 1
           /\ reply.call.maxChars - labelLength(total) < MIN_CHARS_FOR_SEQUENCE_BODY

\* C21: when labels are enabled but the budget less the label length is
\* below the minimum body width of 8, the formatter returns the unlabelled
\* segmentation of the text, every segment within the budget
C21_LabelsAbandonedBelowMinimum ==
    noRoomForLabel
        => /\ reply.messages = splitTextForSmsMessages(normalizedReply, reply.call.maxChars)
           /\ \A k \in DOMAIN reply.messages :
                /\ reply.messages[k][1] # "["
                /\ Len(reply.messages[k]) <= reply.call.maxChars

\* a budget of 14 or more, wide enough for a one-digit label, with ten or
\* more segments: the two-digit label leaves too little and none is attached
C21_Witness ==
    /\ noRoomForLabel
    /\ reply.call.maxChars >= 14
    /\ Len(reply.messages) >= 10
    /\ \A k \in DOMAIN reply.messages : reply.messages[k][1] # "["


(* ------------------- claims about the replies of the adapter ------------ *)

\* the positions of a tag in an envelope, ascending
positionsOf(body, tag) ==
    SelectSeq([k \in 1..Len(body) |-> k], LAMBDA k : body[k] = tag)

\* the contents of the message elements of an envelope, in order
messageElements(body) ==
    LET opens == positionsOf(body, "<Message>")
        closes == positionsOf(body, "</Message>")
    IN  [k \in 1..Len(opens) |-> SubSeq(body, opens[k] + 1, closes[k] - 1)]

\* the unit of work has ended with the reply to an answer of the backend
answered == call # Null /\ call.op = "assistantReply" /\ call.pc = "done"

\* C22: whenever the reply text of the backend is non-empty, the response has
\* at least one message element and none that is empty
C22_NonEmptyTextNonEmptyReply ==
    (answered /\ call.assistantText # <<>>)
        => LET elements == messageElements(call.result.response.body)
           IN  /\ elements # <<>>
               /\ \A k \in DOMAIN elements : elements[k] # <<>>


\* a call of formatReply has returned
formatted == call # Null /\ call.op = "formatReply" /\ call.pc = "done"

\* the texts of a list that are not empty, in order
nonEmptyOf(texts) == SelectSeq(texts, LAMBDA text : Len(text) > 0)

\* C28: formatReply renders a list that is empty or holds only empty strings
\* as an envelope with no message element, and a list with k non-empty
\* segments as an envelope with exactly k message elements, the segments in
\* the same order; no message element is empty
C28_EnvelopeHoldsNonEmptySegments ==
    formatted
        => LET body == call.result
               elements == messageElements(body)
               kept == nonEmptyOf(call.texts)
           IN  /\ body[1] = XML_DECLARATION
               /\ body[2] = "<Response>"
               /\ body[Len(body)] = "</Response>"
               /\ Len(elements) = Len(kept)
               /\ \A k \in DOMAIN elements :
                    elements[k] # <<>> /\ elements[k] = escapeXml(kept[k])
               /\ kept = <<>> => body = <<XML_DECLARATION, "<Response>", "</Response>">>

\* a list of an empty string between two different segments is rendered as
\* two message elements
C28_Witness ==
    /\ formatted
    /\ Len(call.texts) = 3
    /\ call.texts[2] = <<>>
    /\ call.texts[1] # <<>> /\ call.texts[3] # <<>> /\ call.texts[1] # call.texts[3]
    /\ Len(messageElements(call.result)) = 2
    /\ messageElements(call.result)[2] = escapeXml(call.texts[3])

\* a call of sendReply has returned
sendReplyDone == call # Null /\ call.op = "sendReply" /\ call.pc = "done"

\* the bodies of the requests made, in order
bodiesPosted == [k \in DOMAIN call.requests |-> call.requests[k].Body]

\* sendReply found the event complete and a credential for it
canSend ==
    /\ trimToString(call.event.accountId) # <<>>
    /\ trimToString(call.event.from) # <<>>
    /\ trimToString(call.event.to) # <<>>
    /\ resolveAuthToken(call.twilioConfig, trimToString(call.event.accountId)) # ""

\* C29: sendReply posts the non-empty segments one request each in list
\* order and stops at the first request that fails, reporting ok = FALSE and
\* as sentCount the number of segments sent before it; when every request
\* succeeds it reports ok = TRUE and as sentCount the number of non-empty
\* segments; for a list with no non-empty segment it makes no request and
\* reports ok = TRUE, sentCount 0
C29_SendReplyStopsAtFirstFailure ==
    sendReplyDone
        => LET kept == nonEmptyOf(call.texts)
               result == call.result
           IN  /\ result.sentCount <= Len(kept)
               /\ result.ok <=> result.sentCount = Len(kept)
               /\ kept = <<>> => call.requests = <<>>
               /\ (canSend /\ result.ok) => bodiesPosted = kept
               /\ (canSend /\ ~result.ok)
                    => /\ result.status \in {429, 502}
                       /\ bodiesPosted = SubSeq(kept, 1, result.sentCount + 1)
               /\ ~canSend /\ kept # <<>>
                    => call.requests = <<>> /\ result.status \in {400, 500}

\* of three segments the first is sent and the second fails: two requests
\* were made, the third segment was never posted
C29_Witness ==
    /\ sendReplyDone
    /\ Len(nonEmptyOf(call.texts)) = 3
    /\ ~call.result.ok
    /\ call.result.sentCount = 1
    /\ Len(call.requests) = 2

(* ------------------------ claims about the queue ----------------------- *)

\* the units of work enqueued for a conversation key
unitsOf(key) == {i \in DOMAIN tasks : tasks[i].conversationKey = key}

\* every unit of work enqueued for the key has finished
allFinished(key) == \A i \in unitsOf(key) : tasks[i].pc = "settled"

\* C23: once every unit of work enqueued for a conversation key has finished
\* the queue map holds no entry for that key, and once every unit of every
\* key has finished the map is empty; an entry that is held names the unit
\* enqueued last for its key
C23_QueueEntryRemovedWhenDone ==
    /\ \A i \in DOMAIN tasks :
          allFinished(tasks[i].conversationKey)
              => tasks[i].conversationKey \notin DOMAIN conversationQueueTailByKey
    /\ (\A i \in DOMAIN tasks : tasks[i].pc = "settled")
          => conversationQueueTailByKey = <<>>
    /\ \A key \in DOMAIN conversationQueueTailByKey :
          /\ unitsOf(key) # {}
          /\ \A i \in unitsOf(key) : i <= conversationQueueTailByKey[key]
          /\ conversationQueueTailByKey[key] \in unitsOf(key)

\* two units of one key have finished and its entry is gone, while the entry
\* of another key, whose unit is still at work, is held
C23_Witness ==
    /\ Len(tasks) = 3
    /\ tasks[1].conversationKey = tasks[2].conversationKey
    /\ tasks[3].conversationKey # tasks[1].conversationKey
    /\ tasks[1].pc = "settled" /\ tasks[2].pc = "settled"
    /\ inProgress(3)
    /\ DOMAIN conversationQueueTailByKey = {tasks[3].conversationKey}

\* every unit enqueued before unit i for the key of unit i has finished
ownKeyClear(i) ==
    \A j \in unitsOf(tasks[i].conversationKey) : j < i => tasks[j].pc = "settled"

\* C24: work for different conversation keys is independent: a unit that is
\* not finished can take its next step whenever the units enqueued before it
\* for its own key have finished, whatever the units of other keys are
\* doing, and the unit it is chained behind is a unit of its own key
C24_KeysIndependent ==
    \A i \in DOMAIN tasks :
        /\ tasks[i].prior # 0
              => tasks[tasks[i].prior].conversationKey = tasks[i].conversationKey
        /\ (tasks[i].pc # "settled" /\ ownKeyClear(i)) => ENABLED Step(i)

\* the unit of one key is waiting for the backend's answer while a unit of
\* another key, which arrived later, has been answered by the backend and
\* has returned
C24_Witness ==
    /\ Len(tasks) >= 2
    /\ tasks[1].pc = "sendUserMessage"
    /\ tasks[2].conversationKey # tasks[1].conversationKey
    /\ succeeded(2)
    /\ tasks[2].result.response = "assistantText"
    /\ \E m \in DOMAIN sentMessages : sentMessages[m].task = 2

(* ----------------------- claims about the commands --------------------- *)

\* the unit of work that took the step
stepped(i) == i \in DOMAIN tasks /\ tasks'[i] # tasks[i]

\* C25: for a message recognized as the help, show-current-conversation or
\* start-new-conversation command sendUserMessage is never called; a step of
\* a help or show-current-conversation unit leaves every stored record as
\* it is and has no id issued, neither of the two ever calls createSession,
\* and a start-new-conversation unit calls it once at most
C25_CommandsBypassBackend ==
    /\ [](\A i \in DOMAIN tasks :
            ~plainMessage(i)
               => /\ tasks[i].pc # "sendUserMessage"
                  /\ \A m \in DOMAIN sentMessages : sentMessages[m].task # i
                  /\ tasks[i].createCalls <= 1
                  /\ commandOf(i) \in {"help", "session"}
                        => tasks[i].createCalls = 0 /\ tasks[i].pc # "createSession")
    /\ [][\A i \in DOMAIN tasks :
            (stepped(i) /\ commandOf(i) \in {"help", "session"})
               => UNCHANGED <<files, nextSessionId, sentMessages>>]_allVars

\* the three commands were sent in turn and each was answered: the
\* start-new-conversation command had a session created and bound, the
\* show-current-conversation command named it, and the backend was sent no
\* message
C25_Witness ==
    /\ Len(tasks) = 3
    /\ commandOf(1) = "session-new" /\ succeeded(1) /\ tasks[1].createCalls = 1
    /\ commandOf(2) = "session" /\ succeeded(2)
    /\ tasks[2].result.sessionId = tasks[1].result.sessionId
    /\ commandOf(3) = "help" /\ succeeded(3)
    /\ boundSessions(1) = {tasks[1].result.sessionId}
    /\ sentMessages = <<>>

(* -------------------- claims about conversation ids -------------------- *)

\* the events of units i and j differ in `from` and in nothing else
differOnlyInFrom(i, j) ==
    /\ tasks[i].event.from # tasks[j].event.from
    /\ [tasks[i].event EXCEPT !.from = <<>>] = [tasks[j].event EXCEPT !.from = <<>>]

\* unit i has returned the id of the conversation it was bound to
answeredWithId(i) == succeeded(i) /\ tasks[i].result.sessionId # 0

\* C30 as stated: two events that differ only in `from` are bound to two
\* distinct conversation ids
C30_DifferentFromDifferentIds ==
    \A i, j \in DOMAIN tasks :
        (differOnlyInFrom(i, j) /\ answeredWithId(i) /\ answeredWithId(j))
            => tasks[i].result.sessionId # tasks[j].result.sessionId

\* C30: two events that differ only in `from`, and whose `from` values
\* differ after normalizeEndpoint, are bound to two distinct conversation ids
C30_DifferentSendersDifferentIds ==
    \A i, j \in DOMAIN tasks :
        (/\ differOnlyInFrom(i, j)
         /\ normalizeEndpoint(tasks[i].event.from) # normalizeEndpoint(tasks[j].event.from)
         /\ answeredWithId(i) /\ answeredWithId(j))
            => tasks[i].result.sessionId # tasks[j].result.sessionId

\* the same text from two senders was answered in two conversations, each
\* bound to the key of its sender
C30_Witness ==
    /\ Len(tasks) >= 2
    /\ differOnlyInFrom(1, 2)
    /\ normalizeEndpoint(tasks[1].event.from) # normalizeEndpoint(tasks[2].event.from)
    /\ answeredWithId(1) /\ answeredWithId(2)
    /\ tasks[1].result.createdSession /\ tasks[2].result.createdSession
    /\ boundSessions(1) = {tasks[1].result.sessionId}
    /\ boundSessions(2) = {tasks[2].result.sessionId}
    /\ tasks[1].result.sessionId # tasks[2].result.sessionId

(* ------------------ claims about the parser of commands ---------------- *)

\* a call of parseSharedChatCommand has returned
parsedCommand == call # Null /\ call.op = "parseSharedChatCommand" /\ call.pc = "done"

\* the text is the whole command word
wholeWord(text, word) == text = word

\* the text begins with the command word and a whitespace character follows
wordAndSpace(text, word) ==
    /\ Len(text) > Len(word)
    /\ SubSeq(text, 1, Len(word)) = word
    /\ text[Len(word) + 1] \in WS

\* C26 as stated: the trimmed text is recognized as the help, the
\* show-current-conversation or the start-new-conversation command exactly
\* when it is the whole command word or the command word followed by a
\* whitespace character
C26_CommandWordOrWordAndSpace ==
    parsedCommand
        => LET text == trimToString(call.value)
               is(word) == wholeWord(text, word) \/ wordAndSpace(text, word)
           IN  /\ call.result = "help" <=> is(HELP_COMMAND)
               /\ call.result = "session" <=> is(SESSION_COMMAND)
               /\ call.result = "session-new" <=> is(SESSION_NEW_COMMAND)

\* C26: the trimmed text is recognized as the help or the
\* show-current-conversation command exactly when it is the whole command
\* word, and as the start-new-conversation command exactly when it is the
\* whole command word or the command word followed by a whitespace
\* character; a text that extends a command word by other characters, or
\* that writes it in another case, is no command
C26_CommandRecognized ==
    parsedCommand
        => LET text == trimToString(call.value)
           IN  /\ call.result = "help" <=> wholeWord(text, HELP_COMMAND)
               /\ call.result = "session" <=> wholeWord(text, SESSION_COMMAND)
               /\ call.result = "session-new"
                     <=> \/ wholeWord(text, SESSION_NEW_COMMAND)
                         \/ wordAndSpace(text, SESSION_NEW_COMMAND)
               /\ call.result \in {"", "help", "session", "session-new"}

\* "/session-newish" was parsed and is no command
C26_Witness ==
    /\ parsedCommand
    /\ call.value = SESSION_NEW_COMMAND \o <<"i", "s", "h">>
    /\ call.result = ""

(* -------------------- claims about verifyRequest ----------------------- *)

\* a call of verifyRequest has returned
verified == call # Null /\ call.op = "verifyRequest" /\ call.pc = "done"

\* the account id of the posted form has a token of its own
ownToken ==
    trimToString(call.form.AccountSid) \in DOMAIN call.twilioConfig.authTokensByAccountSid

\* the HMAC a sender holding the secret computes: over the URL and the
\* parameters sorted by key
signedWith(secret) ==
    <<secret, <<call.signatureUrl, "AccountSid", call.form.AccountSid,
               "Body", call.form.Body, "From", call.form.From, "To", call.form.To>>>>

\* C27: with verification enabled verifyRequest returns 500 when neither the
\* account id of the form nor the default has a credential, whatever the
\* header; otherwise 403 when the signature header is missing or differs
\* from the HMAC of the URL and the sorted parameters under the account's
\* credential, and ok only when the two are equal; with verification
\* disabled it returns ok
C27_VerifyRequestStatus ==
    verified
        => LET config == call.twilioConfig
               header == call.headers.signature
               secret == IF ownToken
                        THEN config.authTokensByAccountSid[trimToString(call.form.AccountSid)]
                        ELSE config.authToken
           IN  IF ~config.validateSignature THEN call.result = [ok |-> TRUE]
               ELSE IF ~ownToken /\ config.authToken = "" THEN call.result = Reject(500)
               ELSE IF header = <<>> THEN call.result = Reject(403)
               ELSE IF header = signedWith(secret) THEN call.result = [ok |-> TRUE]
               ELSE call.result = Reject(403)

\* no default credential is configured, the form names the account that has
\* a secret of its own, and the header is the signature under that secret:
\* the request is accepted
C27_Witness ==
    /\ verified
    /\ call.twilioConfig.validateSignature
    /\ call.twilioConfig.authToken = ""
    /\ ownToken
    /\ call.headers.signature = signedWith("tokAC")
    /\ call.result = [ok |-> TRUE]

(* ------------------- claims about the chain of a key ------------------- *)

\* the units of the key that have not finished
unfinishedOf(key) == {i \in unitsOf(key) : tasks[i].pc # "settled"}

\* the unit enqueued last among a non-empty set of units
lastOf(units) == CHOOSE i \in units : \A j \in units : j <= i

\* a webhook call has enqueued a unit in this step
enqueued == Len(tasks') = Len(tasks) + 1

\* C34: the queue entry of a key is held as long as a unit of the key is
\* pending or running, and it names the unit enqueued last; a unit that
\* arrives while a unit of its key is unfinished is chained behind the unit
\* enqueued last for the key
C34_EntryKeptForLaterUnit ==
    /\ [](\A i \in DOMAIN tasks :
            tasks[i].pc # "settled"
               => /\ tasks[i].conversationKey \in DOMAIN conversationQueueTailByKey
                  /\ conversationQueueTailByKey[tasks[i].conversationKey]
                        = lastOf(unitsOf(tasks[i].conversationKey)))
    /\ [][enqueued
            => LET n == Len(tasks')
                   key == tasks'[n].conversationKey
               IN  IF unfinishedOf(key) # {}
                   THEN tasks'[n].prior = lastOf(unitsOf(key))
                   ELSE tasks'[n].prior = 0]_allVars

\* the first unit of a key has finished, the second is at work, and the
\* third is chained behind the second and registered in the map
C34_Witness ==
    /\ Len(tasks) = 3
    /\ unitsOf(tasks[1].conversationKey) = {1, 2, 3}
    /\ tasks[1].pc = "settled"
    /\ inProgress(2)
    /\ tasks[3].pc = "queued" /\ tasks[3].prior = 2
    /\ conversationQueueTailByKey[tasks[1].conversationKey] = 3

\* unit i has returned a result for its own conversation to its caller
resultReceived(i) ==
    /\ i \in DOMAIN tasks
    /\ tasks[i].pc = "settled"
    /\ tasks[i].result # Null
    /\ tasks[i].result.conversationKey = tasks[i].conversationKey

\* C35: when every store and backend call returns or fails in the end,
\* every webhook call that has reached the queue receives in the end the
\* result of its own unit of work, also when a unit enqueued before it for
\* the same key has failed: again and again every unit enqueued so far has
\* returned its result, and a result once returned stays
C35_EveryUnitAnswered ==
    []<>(\A i \in DOMAIN tasks : resultReceived(i))

\* a unit has failed and the unit enqueued behind it for the same key has
\* returned its own answer from the backend
C35_Witness ==
    /\ Len(tasks) >= 2
    /\ tasks[2].prior = 1
    /\ tasks[1].pc = "settled" /\ tasks[1].threw
    /\ resultReceived(2) /\ ~tasks[2].threw
    /\ tasks[2].result.response = "assistantText"

(* ------------------- claims about the fallback path -------------------- *)

\* unit i has returned after binding its key to the conversation it names
boundBy(i) ==
    /\ succeeded(i)
    /\ tasks[i].result.response \in {"assistantText", "started"}

\* unit i has left the bindings to the units before it: it is waiting in
\* the queue, it ended on the fallback path, or it was a command that reads
quiet(i) ==
    \/ tasks[i].pc = "queued"
    \/ tasks[i].pc = "settled" /\ tasks[i].threw
    \/ succeeded(i) /\ tasks[i].result.response \in {"help", "session"}

\* C36: a webhook call that ends on the fallback path leaves the mapping
\* from conversation keys to bound conversation ids as it was before the
\* call: while the units that followed the unit which bound the key have
\* done nothing but fail, wait or read, the key is bound to that
\* conversation and to no other
C36_FallbackKeepsBindings ==
    \A i \in DOMAIN tasks :
        (/\ boundBy(i)
         /\ \A j \in unitsOf(tasks[i].conversationKey) : j > i => quiet(j))
            => boundSessions(i) = {tasks[i].result.sessionId}

(* ------------------ claims about concurrent store calls ---------------- *)

\* C37: quarantine only ever moves aside content that failed to parse:
\* under any interleaving of getSession and listSessions with upsertSession
\* on the same id, no file under an `.invalid-` name holds a record that
\* parses
C37_OnlyCorruptQuarantined ==
    \A q \in DOMAIN dir : q.kind = "invalid" => ~parses(data[dir[q]])

\* the upserts that have returned their record
completedUpserts ==
    {i \in DOMAIN ops : ops[i].op = "upsert" /\ ops[i].pc = "done" /\ ~ops[i].threw}

\* no other upsert wrote field f
onlyWriter(i, f) ==
    \A j \in DOMAIN ops \ {i} : ops[j].op = "upsert" => f \notin DOMAIN ops[j].patch

\* C38: no completed upsert is lost: after any interleaving of upserts to
\* one id, when each of them has returned its record, the stored record
\* holds every field an upsert wrote, unless another upsert wrote that
\* field too
C38_NoUpsertLost ==
    (\A j \in DOMAIN ops : j \in completedUpserts)
        => \A i \in completedUpserts :
              /\ pathOf(i) \in DOMAIN dir
              /\ parses(data[dir[pathOf(i)]])
              /\ \A f \in DOMAIN ops[i].patch \ {"id"} :
                    onlyWriter(i, f)
                        => /\ f \in DOMAIN parse(data[dir[pathOf(i)]])
                           /\ parse(data[dir[pathOf(i)]])[f] = ops[i].patch[f]

(* --------------------- claims about session ids ------------------------ *)

\* call i is a getSession that ran alone and returned
gotAlone(i) == i \in DOMAIN ops /\ ops[i].op = "get" /\ ranAlone(i) /\ ~ops[i].threw

\* C39: distinct session ids are stored as distinct records: getSession
\* returns null or a record whose id, when the file holds one, is the id
\* asked for, and an
\* upsertSession for one id between two getSession calls for another id
\* leaves what they return the same
C39_DistinctIdsDistinctRecords ==
    \A i \in DOMAIN ops :
        gotAlone(i)
            => /\ (ops[i].result # Null /\ "id" \in DOMAIN ops[i].result)
                     => ops[i].result.id = ops[i].id
               /\ (/\ gotAlone(i + 2)
                   /\ ops[i + 2].id = ops[i].id
                   /\ ops[i + 1].op = "upsert" /\ ranAlone(i + 1)
                   /\ ops[i + 1].id # ops[i].id)
                      => ops[i + 2].result = ops[i].result

(* ------------------- claims about conversation keys -------------------- *)

\* the keys of two events have been computed
keysMade == call # Null /\ call.op = "createSmsConversationKey" /\ call.pc = "done"

\* C40: createSmsConversationKey gives two events the same key exactly when
\* their provider (lower-cased), account id ("default" when absent), to and
\* from are equal after trimming, whitespace removal and lower-casing
C40_SameKeyIffSameTuple ==
    keysMade
        => (call.result[1] = call.result[2]
              <=> normalizedTuple(call.left) = normalizedTuple(call.right))

(* ---------------------- the update command service -------------------- *)
(* createUpdateCommandService: the state of one service process, the      *)
(* status file it persists to, and the update scripts it has spawned. A   *)
(* restart ends the process and constructs the service again over the     *)
(* same status file.                                                      *)

\* startUpdate calls made on one service process
MaxStarts == 2

\* restarts of the service process
MaxRestarts == 1

ALREADY_RUNNING_CODE == "already_running"
INTERRUPTED_CODE == "interrupted"

\* a status file a writeFile was cut short on: JSON.parse rejects it
TornFile == [torn |-> TRUE]

\* `upd_${nowMs}_${(runCounter += 1)}`
runIdOf(nowMs, counter) ==
    <<"u", "p", "d", "_">> \o toDigits(nowMs) \o <<"_">> \o toDigits(counter)

sanitizeRun(value) ==
    IF value = Null THEN Null
    ELSE [id |-> IF trimToString(value.id) = <<>> THEN Null ELSE trimToString(value.id),
          status |-> IF value.status = "" THEN "failed" ELSE value.status,
          code |-> IF value.code = "" THEN "unknown" ELSE value.code]

createRunSnapshot(value) ==
    IF value = Null THEN Null
    ELSE [id |-> value.id, status |-> value.status, code |-> value.code]

\* the run object currentRun refers to: currentRun is the number of the
\* startUpdate call that made it, 0 for null
currentRunOf(s) == IF s.currentRun = 0 THEN Null ELSE s.calls[s.currentRun].run

\* the service as its constructor leaves it, loadPersistedState pending
constructed(enabled, statusFile, nowMs) ==
    [enabled |-> enabled, file |-> statusFile, atStart |-> statusFile, nowMs |-> nowMs,
     loaded |-> FALSE, runCounter |-> 0, currentRun |-> 0, lastRun |-> Null,
     persistenceError |-> FALSE, queued |-> 0, persisted |-> 0,
     calls |-> <<>>, children |-> {}, report |-> Null]

\* a load that takes lastRun from the file and passes over its currentRun
loadLastRunOnly ==
    /\ updateService # Null /\ ~updateService.loaded
    /\ updateService' =
         [updateService EXCEPT
            !.loaded = TRUE,
            !.persistenceError = updateService.file = TornFile,
            !.lastRun = IF updateService.file \in {Null, TornFile} THEN Null
                        ELSE sanitizeRun(updateService.file.lastRun)]

\* loadPersistedState, which every call of the service awaits: a run the
\* file marks as current becomes the last run, failed and interrupted, and
\* the file is written again
LoadPersistedState ==
    LET s == updateService IN
    /\ s # Null /\ ~s.loaded
    /\ IF s.file = Null
       THEN updateService' = [s EXCEPT !.loaded = TRUE]
       ELSE IF s.file = TornFile
       THEN updateService' = [s EXCEPT !.loaded = TRUE, !.persistenceError = TRUE]
       ELSE LET persistedLastRun == sanitizeRun(s.file.lastRun)
                persistedCurrentRun == sanitizeRun(s.file.currentRun)
                interrupted == [persistedCurrentRun EXCEPT !.status = "failed",
                                                           !.code = INTERRUPTED_CODE]
            IN  IF persistedCurrentRun = Null
                THEN updateService' = [s EXCEPT !.loaded = TRUE,
                                                !.lastRun = persistedLastRun]
                ELSE \E written \in BOOLEAN :
                       updateService' =
                         [s EXCEPT !.loaded = TRUE,
                                   !.lastRun = interrupted,
                                   !.currentRun = 0,
                                   !.file = IF written
                                            THEN [currentRun |-> Null,
                                                  lastRun |-> interrupted]
                                            ELSE @,
                                   !.persistenceError = ~written]

\* getStatus, called once on a service process
GetStatus ==
    LET s == updateService
        status == [ok |-> TRUE,
                   running |-> s.currentRun # 0,
                   currentRun |-> createRunSnapshot(currentRunOf(s)),
                   lastRun |-> s.lastRun,
                   persistenceError |-> s.persistenceError]
    IN  /\ s # Null /\ s.loaded
        /\ s.report = Null
        /\ updateService' = [s EXCEPT !.report = status]

\* startUpdate is called; it waits for the load
StartUpdate ==
    LET s == updateService IN
    /\ s # Null /\ Len(s.calls) < MaxStarts
    /\ \E argsOk \in BOOLEAN :
         updateService' =
           [s EXCEPT !.calls = Append(@, [pc |-> "init", argsOk |-> argsOk, run |-> Null,
                                          ticket |-> 0, settled |-> FALSE,
                                          result |-> Null])]

\* startUpdate from the load to fs.access: the checks of enabled, of the
\* arguments and of currentRun
StartUpdateChecks(i) ==
    LET s == updateService
        returns(result) ==
            updateService' = [s EXCEPT !.calls[i].pc = "done", !.calls[i].result = result]
    IN  /\ s # Null /\ i \in DOMAIN s.calls
        /\ s.calls[i].pc = "init" /\ s.loaded
        /\ IF ~s.enabled THEN returns([ok |-> FALSE, code |-> "disabled"])
           ELSE IF ~s.calls[i].argsOk THEN returns([ok |-> FALSE, code |-> "invalid_args"])
           ELSE IF s.currentRun # 0
           THEN returns([ok |-> FALSE, code |-> ALREADY_RUNNING_CODE,
                         run |-> createRunSnapshot(currentRunOf(s))])
           ELSE updateService' = [s EXCEPT !.calls[i].pc = "access"]

\* startUpdate from fs.access to the persisted state: the run is made
\* current and the state queued for writing
StartUpdateRun(i) ==
    LET s == updateService IN
    /\ s # Null /\ i \in DOMAIN s.calls
    /\ s.calls[i].pc = "access"
    /\ \E executable \in BOOLEAN :
         IF ~executable
         THEN updateService' =
                [s EXCEPT !.calls[i].pc = "done",
                          !.calls[i].result = [ok |-> FALSE, code |-> "script_unavailable"]]
         ELSE updateService' =
                [s EXCEPT !.runCounter = @ + 1,
                          !.calls[i].run = [id |-> runIdOf(s.nowMs, s.runCounter + 1),
                                            status |-> "running", code |-> "started"],
                          !.currentRun = i,
                          !.queued = @ + 1,
                          !.calls[i].ticket = s.queued + 1,
                          !.calls[i].pc = "persist"]

\* completeRun of the run of call i
completeRun(s, i, status, code) ==
    IF s.calls[i].settled THEN s
    ELSE [s EXCEPT !.calls[i].settled = TRUE,
                   !.calls[i].run = [@ EXCEPT !.status = status, !.code = code],
                   !.lastRun = [id |-> s.calls[i].run.id, status |-> status, code |-> code],
                   !.currentRun = 0,
                   !.queued = @ + 1]

\* startUpdate from its persisted state to its return: the script is spawned
StartUpdateSpawn(i) ==
    LET s == updateService IN
    /\ s # Null /\ i \in DOMAIN s.calls
    /\ s.calls[i].pc = "persist" /\ s.persisted >= s.calls[i].ticket
    /\ \E thrown \in BOOLEAN :
         IF thrown
         THEN updateService' =
                [completeRun(s, i, "failed", "spawn_error")
                   EXCEPT !.calls[i].pc = "done",
                          !.calls[i].result = [ok |-> FALSE, code |-> "spawn_error"]]
         ELSE updateService' =
                [s EXCEPT !.children = @ \cup {[id |-> s.calls[i].run.id, of |-> i]},
                          !.calls[i].pc = "done",
                          !.calls[i].result = [ok |-> TRUE, code |-> "started",
                                               run |-> createRunSnapshot(s.calls[i].run)]]

\* persistState at the head of the persistence queue
PersistState ==
    LET s == updateService IN
    /\ s # Null /\ s.persisted < s.queued
    /\ \E written \in BOOLEAN :
         updateService' =
           [s EXCEPT !.persisted = @ + 1,
                     !.file = IF written
                              THEN [currentRun |-> createRunSnapshot(currentRunOf(s)),
                                    lastRun |-> s.lastRun]
                              ELSE @,
                     !.persistenceError = ~written]

\* a spawned script ends: its error or close event reaches completeRun
ChildClosed(child) ==
    LET s == updateService
        gone == [s EXCEPT !.children = @ \ {child}]
    IN  /\ s # Null /\ child \in s.children
        /\ \E code \in {"succeeded", "failed", "timed_out", "spawn_error"} :
             updateService' =
               completeRun(gone, child.of,
                           IF code = "succeeded" THEN "succeeded" ELSE "failed", code)

\* the service process ends and is started again: what it held in memory
\* is gone and the scripts it spawned are no longer followed, the status
\* file stays (cut short when a write was under way), and the clock has
\* moved on
Restart ==
    LET s == updateService IN
    /\ s # Null /\ s.nowMs < MaxRestarts
    /\ \E statusFile \in IF s.persisted < s.queued THEN {s.file, TornFile} ELSE {s.file} :
         updateService' = constructed(s.enabled, statusFile, s.nowMs + 1)

InitUpdate ==
    /\ \E enabled \in BOOLEAN : updateService = constructed(enabled, Null, 0)
    /\ StoreIdle
    /\ ReplyIdle
    /\ call = Null
    /\ AgentIdle
    /\ smsConfig = openConfig /\ files = <<>> /\ nextSessionId = 1
    /\ sentMessages = <<>> /\ conversationQueueTailByKey = <<>>
    /\ tasks = <<>> /\ lastCall = NoCall /\ faults = 0

NextUpdate ==
    \/ /\ LoadPersistedState
       /\ UNCHANGED <<vars, storeVars, reply, call, agentRequests>>
    \/ /\ GetStatus
       /\ UNCHANGED <<vars, storeVars, reply, call, agentRequests>>
    \/ /\ StartUpdate
       /\ UNCHANGED <<vars, storeVars, reply, call, agentRequests>>
    \/ /\ \E i \in 1..MaxStarts : StartUpdateChecks(i)
       /\ UNCHANGED <<vars, storeVars, reply, call, agentRequests>>
    \/ /\ \E i \in 1..MaxStarts : StartUpdateRun(i)
       /\ UNCHANGED <<vars, storeVars, reply, call, agentRequests>>
    \/ /\ \E i \in 1..MaxStarts : StartUpdateSpawn(i)
       /\ UNCHANGED <<vars, storeVars, reply, call, agentRequests>>
    \/ /\ PersistState
       /\ UNCHANGED <<vars, storeVars, reply, call, agentRequests>>
    \/ /\ \E child \in updateService.children : ChildClosed(child)
       /\ UNCHANGED <<vars, storeVars, reply, call, agentRequests>>
    \/ /\ Restart
       /\ UNCHANGED <<vars, storeVars, reply, call, agentRequests>>

\* SpecUpdate: the update service under startUpdate and getStatus calls,
\* script exits and restarts of the process
SpecUpdate == InitUpdate /\ [][NextUpdate]_allVars

(* ------------------- claims about the update service ------------------- *)

\* the scripts the service has spawned and that have not ended
runsInProgress == updateService.children

\* C31: at most one update run is in progress at any time, under any
\* interleaving of startUpdate calls
C31_AtMostOneRunInProgress == Cardinality(runsInProgress) <= 1

\* the status file held a current run when the process started
leftOver ==
    IF updateService.atStart \in {Null, TornFile} THEN Null
    ELSE updateService.atStart.currentRun

\* getStatus has answered and no startUpdate has been called since the start
reportedAtStart == updateService.report # Null /\ updateService.calls = <<>>

MaxRequests == 2

\* waitForOpenCode(attempts = 20, ...)
attempts == 20

FETCH_FAILED == <<"f", "e", "t", "c", "h", " ", "f", "a", "i", "l", "e", "d">>
ECONNREFUSED == <<"E", "C", "O", "N", "N", "R", "E", "F", "U", "S", "E", "D">>

\* String.prototype.includes
includes(detail, needle) ==
    \E k \in 0..(Len(detail) - Len(needle)) :
        SubSeq(detail, k + 1, k + Len(needle)) = needle

isOpenCodeUnavailable(error) ==
    includes(error, FETCH_FAILED) \/ includes(error, ECONNREFUSED)

\* messages of the errors the backend client and the other collaborators
\* throw: two of a backend that cannot be reached, an HTTP failure, a
\* failure that only begins like a connectivity one
ErrorDetails ==
    {<<"T", "y", "p", "e", "E", "r", "r", "o", "r", ":", " ">> \o FETCH_FAILED,
     <<"c", "o", "n", "n", "e", "c", "t", " ">> \o ECONNREFUSED,
     <<"5", "0", "0", " ", "b", "o", "o", "m">>,
     <<"f", "e", "t", "c", "h", " ", "a", "b", "o", "r", "t", "e", "d">>}

\* sendUserMessage rejects: its catch logs the error and throws it again
rejected(r, error) ==
    [r EXCEPT !.pc = "rejected", !.error = error, !.logged = "request_error"]

\* a first sendMessage whose every error is followed by health probes
recoverFromAnyError(i) ==
    /\ i \in DOMAIN agentRequests
    /\ agentRequests[i].pc = "send"
    /\ \/ agentRequests' = [agentRequests EXCEPT ![i].sendCalls = @ + 1,
                                                 ![i].pc = "result"]
       \/ \E error \in ErrorDetails :
            agentRequests' = [agentRequests EXCEPT ![i].sendCalls = @ + 1,
                                                   ![i].firstError = error,
                                                   ![i].pc = "health"]

\* sendUserMessage is called: the payload is built and handed to the
\* memory system
SendUserMessage ==
    /\ Len(agentRequests) < MaxRequests
    /\ agentRequests' = Append(agentRequests,
                               [pc |-> "memory", sendCalls |-> 0, healthCalls |-> 0,
                                ready |-> FALSE, firstError |-> Null, error |-> Null,
                                logged |-> Null])

\* withMemorySystem returns the payload or throws
WithMemorySystem(i) ==
    /\ i \in DOMAIN agentRequests
    /\ agentRequests[i].pc = "memory"
    /\ \/ agentRequests' = [agentRequests EXCEPT ![i].pc = "send"]
       \/ \E error \in ErrorDetails :
            agentRequests' = [agentRequests EXCEPT ![i] = rejected(@, error)]

\* sendMessageWithRecovery up to its catch: the first sendMessage returns,
\* or throws an error that is thrown on unless the backend was unreachable
SendMessageWithRecovery(i) ==
    /\ i \in DOMAIN agentRequests
    /\ agentRequests[i].pc = "send"
    /\ \/ agentRequests' = [agentRequests EXCEPT ![i].sendCalls = @ + 1,
                                                 ![i].pc = "result"]
       \/ \E error \in ErrorDetails :
            agentRequests' =
              [agentRequests EXCEPT
                 ![i] = IF isOpenCodeUnavailable(error)
                        THEN [@ EXCEPT !.sendCalls = @ + 1, !.firstError = error,
                                       !.pc = "health"]
                        ELSE rejected([@ EXCEPT !.sendCalls = @ + 1,
                                                !.firstError = error], error)]

\* waitForOpenCode, one probe of the health endpoint: it answers, or it
\* fails, and after the last failed probe the first error is thrown
WaitForOpenCode(i) ==
    /\ i \in DOMAIN agentRequests
    /\ agentRequests[i].pc = "health"
    /\ \E healthy \in BOOLEAN :
         agentRequests' =
           [agentRequests EXCEPT
              ![i] = IF healthy
                     THEN [@ EXCEPT !.healthCalls = @ + 1, !.ready = TRUE, !.pc = "again"]
                     ELSE IF @.healthCalls + 1 < attempts
                     THEN [@ EXCEPT !.healthCalls = @ + 1]
                     ELSE rejected([@ EXCEPT !.healthCalls = @ + 1], @.firstError)]

\* sendMessageWithRecovery after a successful probe: the second sendMessage
SendMessageAgain(i) ==
    /\ i \in DOMAIN agentRequests
    /\ agentRequests[i].pc = "again"
    /\ \/ agentRequests' = [agentRequests EXCEPT ![i].sendCalls = @ + 1,
                                                 ![i].pc = "result"]
       \/ \E error \in ErrorDetails :
            agentRequests' =
              [agentRequests EXCEPT ![i] = rejected([@ EXCEPT !.sendCalls = @ + 1], error)]

\* sendUserMessage after the backend's result: the reply is read (from the
\* history when the result has no text), stored and logged, or one of
\* these calls throws
AssistantResponse(i) ==
    /\ i \in DOMAIN agentRequests
    /\ agentRequests[i].pc = "result"
    /\ \/ agentRequests' = [agentRequests EXCEPT ![i].pc = "resolved",
                                                 ![i].logged = "assistant_response"]
       \/ \E error \in ErrorDetails :
            agentRequests' = [agentRequests EXCEPT ![i] = rejected(@, error)]

InitRecovery ==
    /\ agentRequests = <<>>
    /\ StoreIdle
    /\ ReplyIdle
    /\ call = Null
    /\ UpdateIdle
    /\ smsConfig = openConfig /\ files = <<>> /\ nextSessionId = 1
    /\ sentMessages = <<>> /\ conversationQueueTailByKey = <<>>
    /\ tasks = <<>> /\ lastCall = NoCall /\ faults = 0

NextRecovery ==
    \/ /\ SendUserMessage
       /\ UNCHANGED <<vars, storeVars, reply, call, updateService>>
    \/ /\ \E i \in 1..MaxRequests : WithMemorySystem(i)
       /\ UNCHANGED <<vars, storeVars, reply, call, updateService>>
    \/ /\ \E i \in 1..MaxRequests : SendMessageWithRecovery(i)
       /\ UNCHANGED <<vars, storeVars, reply, call, updateService>>
    \/ /\ \E i \in 1..MaxRequests : WaitForOpenCode(i)
       /\ UNCHANGED <<vars, storeVars, reply, call, updateService>>
    \/ /\ \E i \in 1..MaxRequests : SendMessageAgain(i)
       /\ UNCHANGED <<vars, storeVars, reply, call, updateService>>
    \/ /\ \E i \in 1..MaxRequests : AssistantResponse(i)
       /\ UNCHANGED <<vars, storeVars, reply, call, updateService>>

\* SpecRecovery: sendUserMessage requests against a backend whose calls
\* succeed or fail in every way
SpecRecovery == InitRecovery /\ [][NextRecovery]_allVars

(* -------------------- claims about the agent service ------------------- *)

\* the first sendMessage of request i failed with an error other than a
\* connectivity one
otherError(i) ==
    /\ agentRequests[i].firstError # Null
    /\ ~isOpenCodeUnavailable(agentRequests[i].firstError)

\* C33: sendUserMessage calls the backend's sendMessage at most twice per
\* request; a second attempt is made only when the first failed with a
\* connectivity error and a following health check succeeded within the
\* bounded number of probes; any other error is propagated after exactly one
\* attempt and without any health check
C33_AtMostOneRetry ==
    \A i \in DOMAIN agentRequests :
        /\ agentRequests[i].sendCalls <= 2
        /\ agentRequests[i].sendCalls = 2 =>
             /\ agentRequests[i].firstError # Null
             /\ isOpenCodeUnavailable(agentRequests[i].firstError)
             /\ agentRequests[i].ready
             /\ agentRequests[i].healthCalls \in 1..attempts
        /\ otherError(i) =>
             /\ agentRequests[i].sendCalls = 1
             /\ agentRequests[i].healthCalls = 0
             /\ agentRequests[i].pc = "rejected"
             /\ agentRequests[i].error = agentRequests[i].firstError

C33_Witness ==
    /\ \E i \in DOMAIN agentRequests :
         agentRequests[i].sendCalls = 2 /\ agentRequests[i].healthCalls = attempts
    /\ \E i \in DOMAIN agentRequests : otherError(i) /\ agentRequests[i].pc = "rejected"

====
